---------------------------- MODULE ResearchProofs ----------------------------
(***************************************************************************)
(* Proofs about ResearchPipeline, for files of any length with any lines   *)
(* in any order, and any clock:                                            *)
(*   - the labels of phase 4.2 are the earliest samples at or after their  *)
(*     targets, and no feature knows a later sample;                       *)
(*   - a corrected label of phase 4.2E keeps to its budget, however the    *)
(*     clock was stepped between the clocks its server time samples saw;   *)
(*   - a label from another feed (4.2B to 4.2D) is taken from the earliest *)
(*     reference at or after its target;                                   *)
(*   - the streaming finalisation of 4.2H writes the labels and reports of *)
(*     the programs in memory, for feeds in receive order.                 *)
(* They rest on what a bisection finds, what a filter keeps, what a sort   *)
(* by rank is and what a pass line by line adds up to: the sections come   *)
(* in that order.                                                          *)
(***************************************************************************)
EXTENDS ResearchPipeline, FiniteSetTheorems, WellFoundedInduction, TLAPS

-----------------------------------------------------------------------------
(* Searching by bisection. *)

\* A set of numbers has a least one.
LEMMA LeastOf ==
  ASSUME NEW S \in SUBSET Nat, S # {}
  PROVE  \E n \in S : \A m \in S : n <= m
<1> DEFINE R == OpToRel(<, Nat)
<1>1. IsWellFoundedOn(R, Nat)
  BY NatLessThanWellFounded
<1>2. PICK n \in S : \A m \in S : ~(<<m, n>> \in R)
  BY <1>1, WFMin
<1>3. \A m \in S : ~(m < n)
  BY <1>2 DEF OpToRel
<1> HIDE DEF R
<1> QED BY <1>2, <1>3

\* Where the positions l .. h - 1 stop being in the set.
IsEdge(right, l, h, k) ==
  /\ k \in l .. h
  /\ \A j \in l .. k - 1 : j \in right
  /\ \A j \in k .. h - 1 : j \notin right

\* Below hi, the set is closed downwards.
IsDown(right, hi) == \A i, j \in 1 .. hi - 1 : i <= j /\ j \in right => i \in right

\* A set that is closed downwards has an edge,
LEMMA EdgeExists ==
  ASSUME NEW right, NEW hi \in Nat, IsDown(right, hi), NEW l \in 1 .. hi, NEW h \in l .. hi
  PROVE  \E k : IsEdge(right, l, h, k)
<1> DEFINE out == {k \in l .. h : k = h \/ k \notin right}
<1>1. h \in out /\ out \in SUBSET Nat
  OBVIOUS
<1>2. PICK k \in out : \A m \in out : k <= m
  BY <1>1, LeastOf
<1>3. \A j \in l .. k - 1 : j \in right
  <2> SUFFICES ASSUME NEW j \in l .. k - 1 PROVE j \in right
    OBVIOUS
  <2>1. j \in l .. h /\ j < k
    BY <1>2
  <2>2. j \notin out
    BY <1>2, <2>1
  <2> QED BY <2>1, <2>2
<1>4. \A j \in k .. h - 1 : j \notin right
  <2> SUFFICES ASSUME NEW j \in k .. h - 1, j \in right PROVE FALSE
    OBVIOUS
  <2>1. k \notin right
    BY <1>2
  <2>2. k \in 1 .. hi - 1 /\ k <= j
    BY <1>2
  <2> QED BY <2>1, <2>2 DEF IsDown
<1> QED BY <1>2, <1>3, <1>4 DEF IsEdge

\* and only one.
LEMMA EdgeUnique ==
  ASSUME NEW right, NEW l \in Int, NEW h \in Int, NEW k, NEW m,
         IsEdge(right, l, h, k), IsEdge(right, l, h, m)
  PROVE  k = m
  BY DEF IsEdge

\* One step of the search.
Turn(right, f, at) ==
  LET mid == (at[1] + at[2]) \div 2
  IN  IF at[1] >= at[2] THEN at[1]
      ELSE IF mid \in right THEN f[<<mid + 1, at[2]>>] ELSE f[<<at[1], mid>>]

\* The middle of a range lies in it.
LEMMA Halves ==
  ASSUME NEW l \in Int, NEW h \in Int, l < h
  PROVE  (l + h) \div 2 \in Int /\ l <= (l + h) \div 2 /\ (l + h) \div 2 < h
  OBVIOUS

\* The edge of the half a search turns to is the edge of the whole.
LEMMA EdgeTurns ==
  ASSUME NEW right, NEW hi \in Nat, IsDown(right, hi), NEW l \in 1 .. hi, NEW h \in l .. hi, l < h,
         NEW k
  PROVE  LET mid == (l + h) \div 2
         IN  IF mid \in right THEN IsEdge(right, mid + 1, h, k) => IsEdge(right, l, h, k)
                              ELSE IsEdge(right, l, mid, k) => IsEdge(right, l, h, k)
<1> DEFINE mid == (l + h) \div 2
<1>1. mid \in Int /\ l <= mid /\ mid < h
  BY Halves
<1> HIDE DEF mid
<1>2. ASSUME mid \in right, IsEdge(right, mid + 1, h, k) PROVE IsEdge(right, l, h, k)
  <2>1. k \in l .. h
    BY <1>1, <1>2 DEF IsEdge
  <2>2. \A j \in l .. mid : j \in right
    BY <1>1, <1>2 DEF IsDown
  <2>3. \A j \in l .. k - 1 : j \in right
    BY <1>1, <1>2, <2>2 DEF IsEdge
  <2> QED BY <1>2, <2>1, <2>3 DEF IsEdge
<1>3. ASSUME mid \notin right, IsEdge(right, l, mid, k) PROVE IsEdge(right, l, h, k)
  <2>1. k \in l .. h
    BY <1>1, <1>3 DEF IsEdge
  <2>2. \A j \in mid .. h - 1 : j \notin right
    BY <1>1, <1>3 DEF IsDown
  <2>3. \A j \in k .. h - 1 : j \notin right
    BY <1>1, <1>3, <2>2 DEF IsEdge
  <2> QED BY <1>3, <2>1, <2>3 DEF IsEdge
<1> QED BY <1>2, <1>3 DEF mid

\* A bisection of a set that is closed downwards ends at its edge.
LEMMA Bisection ==
  ASSUME NEW right, NEW hi \in Nat, IsDown(right, hi), NEW lo \in 1 .. hi
  PROVE  IsEdge(right, lo, hi, Bisect(right, lo, hi))
<1> DEFINE P == (1 .. hi) \X (1 .. hi)
           edge(l, h) == CHOOSE k : IsEdge(right, l, h, k)
           g == [at \in P |-> IF at[1] >= at[2] THEN at[1] ELSE edge(at[1], at[2])]
           search == CHOOSE f : f = [at \in P |-> Turn(right, f, at)]
<1>1. \A l \in 1 .. hi : \A h \in l .. hi : IsEdge(right, l, h, g[<<l, h>>])
  <2> SUFFICES ASSUME NEW l \in 1 .. hi, NEW h \in l .. hi
               PROVE  IsEdge(right, l, h, g[<<l, h>>])
    OBVIOUS
  <2>1. CASE l = h
    BY <2>1 DEF IsEdge
  <2>2. CASE l < h
    <3>1. IsEdge(right, l, h, edge(l, h))
      BY EdgeExists
    <3>2. g[<<l, h>>] = edge(l, h)
      BY <2>2
    <3> QED BY <3>1, <3>2
  <2> QED BY <2>1, <2>2
<1>2. g = [at \in P |-> Turn(right, g, at)]
  <2> SUFFICES ASSUME NEW l \in 1 .. hi, NEW h \in 1 .. hi
               PROVE  g[<<l, h>>] = Turn(right, g, <<l, h>>)
    OBVIOUS
  <2>1. CASE l >= h
    BY <2>1 DEF Turn
  <2>2. CASE l < h
    <3> DEFINE mid == (l + h) \div 2
    <3>1. mid \in Int /\ l <= mid /\ mid < h
      BY <2>2, Halves
    <3> HIDE DEF g
    <3>2. Turn(right, g, <<l, h>>) = IF mid \in right THEN g[<<mid + 1, h>>] ELSE g[<<l, mid>>]
      BY <2>2 DEF Turn
    <3>3. IsEdge(right, l, h, g[<<l, h>>])
      BY <1>1, <2>2
    <3>4. CASE mid \in right
      <4>1. IsEdge(right, mid + 1, h, g[<<mid + 1, h>>])
        BY <1>1, <3>1
      <4>2. IsEdge(right, l, h, g[<<mid + 1, h>>])
        BY <2>2, <3>4, <4>1, EdgeTurns
      <4> QED BY <3>2, <3>3, <3>4, <4>2, EdgeUnique
    <3>5. CASE mid \notin right
      <4>1. IsEdge(right, l, mid, g[<<l, mid>>])
        BY <1>1, <3>1
      <4>2. IsEdge(right, l, h, g[<<l, mid>>])
        BY <2>2, <3>5, <4>1, EdgeTurns
      <4> QED BY <3>2, <3>3, <3>5, <4>2, EdgeUnique
    <3> QED BY <3>4, <3>5
  <2> QED BY <2>1, <2>2
<1> HIDE DEF g
<1>3. search = [at \in P |-> Turn(right, search, at)]
  BY <1>2
<1>4. Bisect(right, lo, hi) = search[<<lo, hi>>]
  BY DEF Bisect, Turn
<1> HIDE DEF search
<1>5. \A n \in Nat : \A l \in 1 .. hi : \A h \in l .. hi : h - l = n => IsEdge(right, l, h, search[<<l, h>>])
  <2> DEFINE bad == {n \in Nat : \E l \in 1 .. hi : \E h \in l .. hi :
                                   h - l = n /\ ~IsEdge(right, l, h, search[<<l, h>>])}
  <2> SUFFICES ASSUME bad # {} PROVE FALSE
    OBVIOUS
  <2>1. PICK n \in bad : \A m \in bad : n <= m
    <3>1. bad \in SUBSET Nat
      OBVIOUS
    <3> HIDE DEF bad
    <3> QED BY <3>1, LeastOf
  <2>0. \A m \in 0 .. n - 1 : \A l \in 1 .. hi : \A h \in l .. hi :
          h - l = m => IsEdge(right, l, h, search[<<l, h>>])
    <3> TAKE m \in 0 .. n - 1
    <3>1. n \in Nat /\ m \in Nat /\ m < n
      BY <2>1
    <3>2. m \notin bad
      <4> HIDE DEF bad
      <4> QED BY <2>1, <3>1
    <3> QED BY <3>1, <3>2
  <2>2. PICK l \in 1 .. hi : \E h \in l .. hi : h - l = n /\ ~IsEdge(right, l, h, search[<<l, h>>])
    BY <2>1
  <2>3. PICK h \in l .. hi : h - l = n /\ ~IsEdge(right, l, h, search[<<l, h>>])
    BY <2>2
  <2>4. search[<<l, h>>] = Turn(right, search, <<l, h>>)
    BY <1>3
  <2>5. CASE l = h
    BY <2>3, <2>4, <2>5 DEF Turn, IsEdge
  <2>6. CASE l < h
    <3> DEFINE mid == (l + h) \div 2
    <3>1. mid \in Int /\ l <= mid /\ mid < h
      BY <2>6, Halves
    <3>2. search[<<l, h>>] = IF mid \in right THEN search[<<mid + 1, h>>] ELSE search[<<l, mid>>]
      BY <2>4, <2>6 DEF Turn
    <3> HIDE DEF mid
    <3>3. CASE mid \in right
      <4>1. mid + 1 \in 1 .. hi /\ h \in mid + 1 .. hi /\ h - (mid + 1) \in 0 .. n - 1
        BY <2>3, <3>1
      <4>2. IsEdge(right, mid + 1, h, search[<<mid + 1, h>>])
        BY <2>0, <4>1
      <4>3. IsEdge(right, l, h, search[<<mid + 1, h>>])
        BY <2>6, <3>3, <4>2, EdgeTurns DEF mid
      <4> QED BY <2>3, <3>2, <3>3, <4>3
    <3>4. CASE mid \notin right
      <4>1. mid \in l .. hi /\ mid - l \in 0 .. n - 1
        BY <2>3, <3>1
      <4>2. IsEdge(right, l, mid, search[<<l, mid>>])
        BY <2>0, <4>1
      <4>3. IsEdge(right, l, h, search[<<l, mid>>])
        BY <2>6, <3>4, <4>2, EdgeTurns DEF mid
      <4> QED BY <2>3, <3>2, <3>4, <4>3
    <3> QED BY <3>3, <3>4
  <2> QED BY <2>5, <2>6
<1>6. hi - lo \in Nat /\ hi \in lo .. hi
  OBVIOUS
<1>7. IsEdge(right, lo, hi, search[<<lo, hi>>])
  BY <1>5, <1>6
<1> QED BY <1>4, <1>7

-----------------------------------------------------------------------------
(* What the two searches find. *)

\* The first n values are in order.
IsOrdered(a, n) == \A i, j \in 1 .. n : i <= j => a[i] <= a[j]

\* bisect_left of an ordered list.
LEMMA BisectLeftFinds ==
  ASSUME NEW a \in Seq(Int), IsOrdered(a, Len(a)), NEW x \in Int, NEW lo \in 1 .. Len(a) + 1
  PROVE  LET k == BisectLeft(a, x, lo)
         IN  /\ k \in lo .. Len(a) + 1
             /\ \A j \in lo .. k - 1 : a[j] < x
             /\ \A j \in k .. Len(a) : a[j] >= x
<1> DEFINE right == {k \in DOMAIN a : a[k] < x}
           hi == Len(a) + 1
<1>1. Len(a) \in Nat /\ DOMAIN a = 1 .. Len(a) /\ \A k \in 1 .. Len(a) : a[k] \in Int
  OBVIOUS
<1>2. IsDown(right, hi)
  BY <1>1 DEF IsDown, IsOrdered
<1>3. hi \in Nat /\ lo \in 1 .. hi
  BY <1>1
<1>4. BisectLeft(a, x, lo) = Bisect(right, lo, hi)
  BY DEF BisectLeft
<1>5. \A j \in 1 .. Len(a) : j \in right <=> a[j] < x
  BY <1>1
<1> HIDE DEF right
<1>6. IsEdge(right, lo, hi, Bisect(right, lo, hi))
  BY <1>2, <1>3, Bisection
<1> QED BY <1>1, <1>4, <1>5, <1>6 DEF IsEdge

\* bisect_right of the first n elements of a list whose first n are ordered.
LEMMA BisectRightFinds ==
  ASSUME NEW a \in Seq(Int), NEW n \in 0 .. Len(a), NEW x \in Int, IsOrdered(a, n)
  PROVE  LET k == BisectRight(a, x, n + 1)
         IN  /\ k \in 1 .. n + 1
             /\ \A j \in 1 .. k - 1 : a[j] <= x
             /\ \A j \in k .. n : a[j] > x
<1> DEFINE right == {k \in DOMAIN a : ~(x < a[k])}
           hi == n + 1
<1>1. Len(a) \in Nat /\ DOMAIN a = 1 .. Len(a) /\ \A k \in 1 .. Len(a) : a[k] \in Int
  OBVIOUS
<1>2. IsDown(right, hi)
  BY <1>1 DEF IsDown, IsOrdered
<1>3. hi \in Nat /\ 1 \in 1 .. hi
  BY <1>1
<1>4. BisectRight(a, x, hi) = Bisect(right, 1, hi)
  BY DEF BisectRight
<1>5. \A j \in 1 .. Len(a) : j \in right <=> a[j] <= x
  BY <1>1
<1> HIDE DEF right
<1>6. IsEdge(right, 1, hi, Bisect(right, 1, hi))
  BY <1>2, <1>3, Bisection
<1> QED BY <1>1, <1>4, <1>5, <1>6 DEF IsEdge

-----------------------------------------------------------------------------
(* What is picked from a list. *)

\* The next list when position k is considered.
Take(s, at, f, k) ==
  IF k = 0 THEN << >> ELSE IF k \in at THEN Append(f[k - 1], s[k]) ELSE f[k - 1]

\* The function that filters a list step by step exists,
LEMMA TakingGoesOn ==
  ASSUME NEW s, NEW at, NEW n \in Nat
  PROVE  \E f : f = [k \in 0 .. n |-> Take(s, at, f, k)]
<1> DEFINE bad == {m \in Nat : ~ \E f : f = [k \in 0 .. m |-> Take(s, at, f, k)]}
<1> SUFFICES ASSUME bad # {} PROVE FALSE
  OBVIOUS
<1>1. PICK m \in bad : \A j \in bad : m <= j
  <2>1. bad \in SUBSET Nat
    OBVIOUS
  <2> HIDE DEF bad
  <2> QED BY <2>1, LeastOf
<1>2. CASE m = 0
  <2> DEFINE f == [k \in 0 .. 0 |-> << >>]
  <2>1. f = [k \in 0 .. 0 |-> Take(s, at, f, k)]
    BY DEF Take
  <2> QED BY <1>1, <1>2, <2>1
<1>3. CASE m # 0
  <2>1. m \in Nat /\ m - 1 \in Nat /\ m - 1 \notin bad
    <3>1. m \in Nat /\ m - 1 \in Nat
      BY <1>1, <1>3
    <3> HIDE DEF bad
    <3> QED BY <1>1, <3>1
  <2>2. PICK f : f = [k \in 0 .. m - 1 |-> Take(s, at, f, k)]
    BY <2>1
  <2> DEFINE g == [k \in 0 .. m |-> IF k = m THEN Take(s, at, f, m) ELSE f[k]]
  <2>3. g = [k \in 0 .. m |-> Take(s, at, g, k)]
    <3> SUFFICES ASSUME NEW k \in 0 .. m PROVE g[k] = Take(s, at, g, k)
      OBVIOUS
    <3>1. k # 0 => k - 1 \in 0 .. m - 1 /\ g[k - 1] = f[k - 1]
      BY <2>1
    <3>2. Take(s, at, g, k) = Take(s, at, f, k)
      BY <3>1 DEF Take
    <3>3. k # m => k \in 0 .. m - 1 /\ f[k] = Take(s, at, f, k)
      <4>1. k # m => k \in 0 .. m - 1
        BY <2>1
      <4> QED BY <4>1, <2>2
    <3> QED BY <3>2, <3>3
  <2> HIDE DEF g
  <2>4. m \notin bad
    BY <2>3
  <2> QED BY <1>1, <2>4
<1> QED BY <1>2, <1>3

\* and Picked is its last value.
LEMMA PickedIsTaken ==
  ASSUME NEW s, Len(s) \in Nat, NEW at
  PROVE  \E f : /\ f = [k \in 0 .. Len(s) |-> Take(s, at, f, k)]
                /\ Picked(s, at) = f[Len(s)]
<1> DEFINE taken == CHOOSE f : f = [k \in 0 .. Len(s) |-> Take(s, at, f, k)]
<1>1. taken = [k \in 0 .. Len(s) |-> Take(s, at, taken, k)]
  BY TakingGoesOn
<1>2. Picked(s, at) = taken[Len(s)]
  BY DEF Picked, Take
<1> HIDE DEF taken
<1> QED BY <1>1, <1>2

\* A filter that keeps every position keeps the list.
LEMMA PickedAll ==
  ASSUME NEW S, NEW s \in Seq(S), NEW at, DOMAIN s \subseteq at
  PROVE  Picked(s, at) = s
<1>1. Len(s) \in Nat /\ DOMAIN s = 1 .. Len(s)
  OBVIOUS
<1>2. PICK f : f = [k \in 0 .. Len(s) |-> Take(s, at, f, k)] /\ Picked(s, at) = f[Len(s)]
  BY <1>1, PickedIsTaken
<1> DEFINE bad == {n \in Nat : n <= Len(s) /\ f[n] # SubSeq(s, 1, n)}
<1>3. bad = {}
  <2> SUFFICES ASSUME bad # {} PROVE FALSE
    OBVIOUS
  <2>1. PICK n \in bad : \A j \in bad : n <= j
    <3>1. bad \in SUBSET Nat
      OBVIOUS
    <3> HIDE DEF bad
    <3> QED BY <3>1, LeastOf
  <2>2. n \in 0 .. Len(s) /\ f[n] # SubSeq(s, 1, n) /\ f[n] = Take(s, at, f, n)
    <3>1. n \in 0 .. Len(s) /\ f[n] # SubSeq(s, 1, n)
      BY <1>1, <2>1
    <3> QED BY <1>2, <3>1
  <2>3. n # 0
    BY <1>1, <2>2 DEF Take
  <2>4. n - 1 \in Nat /\ n - 1 <= Len(s) /\ n - 1 \notin bad
    <3>1. n - 1 \in Nat /\ n - 1 < n
      BY <1>1, <2>2, <2>3
    <3> HIDE DEF bad
    <3> QED BY <1>1, <2>1, <2>2, <3>1
  <2>5. f[n - 1] = SubSeq(s, 1, n - 1)
    BY <2>4
  <2>6. f[n] = Append(SubSeq(s, 1, n - 1), s[n])
    BY <1>1, <2>2, <2>3, <2>5 DEF Take
  <2>7. SubSeq(s, 1, n) = Append(SubSeq(s, 1, n - 1), s[n])
    BY <1>1, <2>2, <2>3
  <2> QED BY <2>2, <2>6, <2>7
<1>4. f[Len(s)] = SubSeq(s, 1, Len(s))
  BY <1>1, <1>3
<1>5. SubSeq(s, 1, Len(s)) = s
  OBVIOUS
<1> QED BY <1>2, <1>4, <1>5

\* What is picked is picked from the list, at the positions named.
LEMMA PickedFrom ==
  ASSUME NEW s, Len(s) \in Nat, NEW at, NEW S, \A k \in 1 .. Len(s) : k \in at => s[k] \in S
  PROVE  Picked(s, at) \in Seq(S)
<1>1. PICK f : f = [k \in 0 .. Len(s) |-> Take(s, at, f, k)] /\ Picked(s, at) = f[Len(s)]
  BY PickedIsTaken
<1> DEFINE bad == {n \in Nat : n <= Len(s) /\ f[n] \notin Seq(S)}
<1>2. bad = {}
  <2> SUFFICES ASSUME bad # {} PROVE FALSE
    OBVIOUS
  <2>1. PICK n \in bad : \A j \in bad : n <= j
    <3>1. bad \in SUBSET Nat
      OBVIOUS
    <3> HIDE DEF bad
    <3> QED BY <3>1, LeastOf
  <2>2. n \in 0 .. Len(s) /\ f[n] \notin Seq(S) /\ f[n] = Take(s, at, f, n)
    <3>1. n \in 0 .. Len(s) /\ f[n] \notin Seq(S)
      BY <2>1
    <3> QED BY <1>1, <3>1
  <2>3. n # 0
    BY <2>2 DEF Take
  <2>4. n - 1 \in Nat /\ n - 1 <= Len(s) /\ n - 1 \notin bad
    <3>1. n - 1 \in Nat /\ n - 1 < n
      BY <2>2, <2>3
    <3> HIDE DEF bad
    <3> QED BY <2>1, <2>2, <3>1
  <2>5. f[n - 1] \in Seq(S)
    BY <2>4
  <2>6. n \in at => Append(f[n - 1], s[n]) \in Seq(S)
    <3> SUFFICES ASSUME n \in at PROVE Append(f[n - 1], s[n]) \in Seq(S)
      OBVIOUS
    <3>1. s[n] \in S
      BY <2>2, <2>3
    <3> QED BY <2>5, <3>1
  <2> QED BY <2>2, <2>3, <2>5, <2>6 DEF Take
<1> QED BY <1>1, <1>2

-----------------------------------------------------------------------------
(* Sorting by rank, medians and extremes. *)

\* The positions that come before position k in the order of the keys.
Ahead(keys, n, k) == {j \in 1 .. n : keys[j] < keys[k] \/ (keys[j] = keys[k] /\ j < k)}

\* The rank of a position is below the length.
LEMMA AheadCounts ==
  ASSUME NEW n \in Nat, NEW keys, \A j \in 1 .. n : keys[j] \in Int, NEW k \in 1 .. n
  PROVE  IsFiniteSet(Ahead(keys, n, k)) /\ Cardinality(Ahead(keys, n, k)) \in 0 .. n - 1
<1> DEFINE A == Ahead(keys, n, k)
<1>1. IsFiniteSet(1 .. n) /\ Cardinality(1 .. n) = n
  BY FS_Interval
<1>2. A \in SUBSET (1 .. n) /\ k \notin A
  BY DEF Ahead
<1> HIDE DEF A
<1>3. IsFiniteSet(A) /\ Cardinality(A) <= n /\ (n = Cardinality(A) => 1 .. n = A)
  BY <1>1, <1>2, FS_Subset
<1>4. Cardinality(A) \in Nat /\ Cardinality(A) # n
  BY <1>2, <1>3, FS_CardinalityType
<1> QED BY <1>3, <1>4 DEF A

\* A position that comes before another has the lower rank,
LEMMA AheadGrows ==
  ASSUME NEW n \in Nat, NEW keys, \A j \in 1 .. n : keys[j] \in Int,
         NEW k \in 1 .. n, NEW m \in 1 .. n, k \in Ahead(keys, n, m)
  PROVE  Cardinality(Ahead(keys, n, k)) < Cardinality(Ahead(keys, n, m))
<1> DEFINE A == Ahead(keys, n, k)
           B == Ahead(keys, n, m)
<1>1. A \in SUBSET B /\ k \in B /\ k \notin A
  BY DEF Ahead
<1>2. IsFiniteSet(B) /\ Cardinality(A) \in Nat /\ Cardinality(B) \in Nat
  BY AheadCounts
<1> HIDE DEF A, B
<1>3. Cardinality(A) <= Cardinality(B) /\ (Cardinality(B) = Cardinality(A) => B = A)
  BY <1>1, <1>2, FS_Subset
<1> QED BY <1>1, <1>2, <1>3 DEF A, B

\* one of any two comes before the other,
LEMMA AheadIsTotal ==
  ASSUME NEW n \in Nat, NEW keys, \A j \in 1 .. n : keys[j] \in Int,
         NEW k \in 1 .. n, NEW m \in 1 .. n, k # m
  PROVE  k \in Ahead(keys, n, m) \/ m \in Ahead(keys, n, k)
<1>1. keys[k] \in Int /\ keys[m] \in Int
  OBVIOUS
<1> QED BY <1>1 DEF Ahead

\* so every rank is taken.
LEMMA RanksAreTaken ==
  ASSUME NEW n \in Nat, NEW keys, \A j \in 1 .. n : keys[j] \in Int, NEW r \in 0 .. n - 1
  PROVE  \E k \in 1 .. n : Cardinality(Ahead(keys, n, k)) = r
<1> DEFINE rank == [k \in 1 .. n |-> Cardinality(Ahead(keys, n, k))]
<1>1. rank \in [1 .. n -> 0 .. n - 1]
  BY AheadCounts
<1>2. \A k, m \in 1 .. n : rank[k] = rank[m] => k = m
  <2> SUFFICES ASSUME NEW k \in 1 .. n, NEW m \in 1 .. n, k # m PROVE rank[k] # rank[m]
    OBVIOUS
  <2>1. rank[k] \in Int /\ rank[m] \in Int
    BY <1>1
  <2>2. CASE k \in Ahead(keys, n, m)
    BY <2>1, <2>2, AheadGrows
  <2>3. CASE m \in Ahead(keys, n, k)
    BY <2>1, <2>3, AheadGrows
  <2> QED BY <2>2, <2>3, AheadIsTotal
<1> HIDE DEF rank
<1>3. rank \in Injection(1 .. n, 0 .. n - 1)
  BY <1>1, <1>2 DEF Injection, IsInjective
<1>4. /\ IsFiniteSet(1 .. n) /\ Cardinality(1 .. n) = n
      /\ IsFiniteSet(0 .. n - 1) /\ Cardinality(0 .. n - 1) = n
  BY FS_Interval
<1>5. rank \in Surjection(1 .. n, 0 .. n - 1)
  BY <1>3, <1>4, FS_Injection
<1>6. PICK k \in 1 .. n : rank[k] = r
  BY <1>5 DEF Surjection
<1> QED BY <1>6 DEF rank

\* A permutation of 1 .. n in the order of the keys.
InOrder(keys, n, p) ==
  /\ p \in [1 .. n -> 1 .. n]
  /\ \A j \in 1 .. n : \E m \in 1 .. n : p[m] = j
  /\ \A l, m \in 1 .. n : l <= m => keys[p[l]] <= keys[p[m]]

ByRank(keys, n) == [m \in 1 .. n |-> CHOOSE k \in 1 .. n : Cardinality(Ahead(keys, n, k)) = m - 1]

\* Each position by rank has its rank.
LEMMA RankIsTaken ==
  ASSUME NEW n \in Nat, NEW keys, \A j \in 1 .. n : keys[j] \in Int, NEW m \in 1 .. n
  PROVE  LET p == ByRank(keys, n) IN p[m] \in 1 .. n /\ Cardinality(Ahead(keys, n, p[m])) = m - 1
<1>1. m - 1 \in 0 .. n - 1
  OBVIOUS
<1>2. \E k \in 1 .. n : Cardinality(Ahead(keys, n, k)) = m - 1
  BY <1>1, RanksAreTaken
<1> QED BY <1>2 DEF ByRank

\* The positions by rank are all of them, in the order of their keys.
LEMMA RankIsInOrder ==
  ASSUME NEW n \in Nat, NEW keys, \A j \in 1 .. n : keys[j] \in Int
  PROVE  InOrder(keys, n, ByRank(keys, n))
<1> DEFINE p == ByRank(keys, n)
<1>1. \A m \in 1 .. n : p[m] \in 1 .. n /\ Cardinality(Ahead(keys, n, p[m])) = m - 1
  BY RankIsTaken
<1>2. p \in [1 .. n -> 1 .. n]
  BY <1>1 DEF ByRank
<1> HIDE DEF p
<1>3. \A j \in 1 .. n : \E m \in 1 .. n : p[m] = j
  <2> TAKE j \in 1 .. n
  <2> DEFINE m == Cardinality(Ahead(keys, n, j)) + 1
  <2>1. m \in 1 .. n /\ m - 1 = Cardinality(Ahead(keys, n, j))
    BY AheadCounts
  <2>2. p[m] \in 1 .. n /\ Cardinality(Ahead(keys, n, p[m])) = Cardinality(Ahead(keys, n, j))
    <3> HIDE DEF m
    <3> QED BY <1>1, <2>1
  <2> HIDE DEF m
  <2>3. p[m] = j
    <3> SUFFICES ASSUME p[m] # j PROVE FALSE
      OBVIOUS
    <3>1. Cardinality(Ahead(keys, n, j)) \in Int
      BY AheadCounts
    <3>2. CASE p[m] \in Ahead(keys, n, j)
      BY <2>2, <3>1, <3>2, AheadGrows
    <3>3. CASE j \in Ahead(keys, n, p[m])
      BY <2>2, <3>1, <3>3, AheadGrows
    <3> QED BY <2>2, <3>2, <3>3, AheadIsTotal
  <2> QED BY <2>1, <2>3
<1>4. \A l, m \in 1 .. n : l <= m => keys[p[l]] <= keys[p[m]]
  <2> SUFFICES ASSUME NEW l \in 1 .. n, NEW m \in 1 .. n, l <= m, ~(keys[p[l]] <= keys[p[m]]) PROVE FALSE
    OBVIOUS
  <2>1. p[l] \in 1 .. n /\ p[m] \in 1 .. n
    BY <1>1
  <2>2. p[m] \in Ahead(keys, n, p[l])
    BY <2>1 DEF Ahead
  <2>3. m - 1 < l - 1
    BY <1>1, <2>1, <2>2, AheadGrows
  <2> QED BY <2>3
<1> QED BY <1>2, <1>3, <1>4 DEF InOrder, p

\* A list sorted by keys is the list in another order, the one of the keys.
LEMMA SortedByRank ==
  ASSUME NEW n \in Nat, NEW s, DOMAIN s = 1 .. n, NEW keys
  PROVE  SortedBy(s, keys) = [m \in 1 .. n |-> s[ByRank(keys, n)[m]]]
  BY DEF SortedBy, Ahead, ByRank

\* A median, or any element at half of the list, is one of the list.
LEMMA MedianIsThere ==
  ASSUME NEW s \in Seq(Int), s # << >>
  PROVE  \E k \in 1 .. Len(s) : Percentile(s, 50) = s[k]
<1> DEFINE scaled == (Len(s) - 1) * 50
           rounded == IF scaled % 100 = 50 /\ (scaled \div 100) % 2 = 0
                        THEN scaled \div 100 ELSE (scaled + 50) \div 100
<1>1. Len(s) \in Nat \ {0} /\ DOMAIN s = 1 .. Len(s) /\ \A j \in 1 .. Len(s) : s[j] \in Int
  OBVIOUS
<1> DEFINE p == ByRank(s, Len(s))
<1>2. p \in [1 .. Len(s) -> 1 .. Len(s)] /\ SortedBy(s, s) = [m \in 1 .. Len(s) |-> s[p[m]]]
  <2> DEFINE n == Len(s)
  <2>1. n \in Nat /\ DOMAIN s = 1 .. n /\ \A j \in 1 .. n : s[j] \in Int
    BY <1>1
  <2> HIDE DEF n
  <2>2. InOrder(s, n, ByRank(s, n))
    BY <2>1, RankIsInOrder
  <2>3. SortedBy(s, s) = [m \in 1 .. n |-> s[ByRank(s, n)[m]]]
    BY <2>1, SortedByRank
  <2> QED BY <2>2, <2>3 DEF InOrder, n
<1> HIDE DEF p
<1>3. rounded + 1 \in 1 .. Len(s)
  <2>1. scaled \in Nat
    BY <1>1
  <2>2. scaled \div 100 \in 0 .. Len(s) - 1
    BY <1>1
  <2>3. (scaled + 50) \div 100 \in 0 .. Len(s) - 1
    BY <1>1
  <2> QED BY <1>1, <2>2, <2>3
<1>4. Percentile(s, 50) = SortedBy(s, s)[rounded + 1]
  BY DEF Percentile
<1> HIDE DEF rounded
<1> QED BY <1>2, <1>3, <1>4

\* The extremes of a list of numbers.
LEMMA ExtremesExist ==
  ASSUME NEW n \in Nat \ {0}, NEW a, \A j \in 1 .. n : a[j] \in Int
  PROVE  /\ \E k \in 1 .. n : \A j \in 1 .. n : a[j] <= a[k]
         /\ \E k \in 1 .. n : \A j \in 1 .. n : a[k] <= a[j]
<1> DEFINE p == ByRank(a, n)
<1>1. InOrder(a, n, p)
  BY RankIsInOrder
<1> HIDE DEF p
<1>2. \A j \in 1 .. n : a[j] <= a[p[n]] /\ a[p[1]] <= a[j]
  <2> TAKE j \in 1 .. n
  <2>1. PICK m \in 1 .. n : p[m] = j
    BY <1>1 DEF InOrder
  <2>2. n \in 1 .. n /\ 1 \in 1 .. n /\ m <= n /\ 1 <= m
    OBVIOUS
  <2>3. a[p[m]] <= a[p[n]] /\ a[p[1]] <= a[p[m]]
    BY <1>1, <2>2 DEF InOrder
  <2> QED BY <2>1, <2>3
<1>3. p[n] \in 1 .. n /\ p[1] \in 1 .. n
  BY <1>1 DEF InOrder
<1> QED BY <1>2, <1>3

\* The least and the greatest of a list are in it.
LEMMA ExtremesOfRange ==
  ASSUME NEW a \in Seq(Int), a # << >>
  PROVE  /\ Max(Range(a)) \in Range(a) /\ \A x \in Range(a) : x <= Max(Range(a))
         /\ Min(Range(a)) \in Range(a) /\ \A x \in Range(a) : Min(Range(a)) <= x
<1>1. Len(a) \in Nat \ {0} /\ DOMAIN a = 1 .. Len(a) /\ \A j \in 1 .. Len(a) : a[j] \in Int
  OBVIOUS
<1>2. Range(a) = {a[j] : j \in 1 .. Len(a)}
  BY <1>1 DEF Range
<1>3. \E x \in Range(a) : \A y \in Range(a) : x >= y
  <2>1. PICK k \in 1 .. Len(a) : \A j \in 1 .. Len(a) : a[j] <= a[k]
    BY <1>1, ExtremesExist
  <2> QED BY <1>1, <1>2, <2>1
<1>4. \E x \in Range(a) : \A y \in Range(a) : x <= y
  <2>1. PICK k \in 1 .. Len(a) : \A j \in 1 .. Len(a) : a[k] <= a[j]
    BY <1>1, ExtremesExist
  <2> QED BY <1>1, <1>2, <2>1
<1>5. Range(a) \subseteq Int
  BY <1>1, <1>2
<1>6. Max(Range(a)) \in Range(a) /\ \A x \in Range(a) : Max(Range(a)) >= x
  BY <1>3 DEF Max
<1>7. Min(Range(a)) \in Range(a) /\ \A x \in Range(a) : Min(Range(a)) <= x
  BY <1>4 DEF Min
<1> QED BY <1>5, <1>6, <1>7

-----------------------------------------------------------------------------
(* What is on disk, and what was measured. *)

\* A line of a feed as parse_bookticker_payload leaves it.
EventRow ==
  {e \in ReferenceRow :
     /\ e.price = e.bid + e.ask
     /\ e.quality <=> e.bid > 0 /\ e.ask > 0 /\ e.bid < e.ask}

\* A server time sample is off the clock's (doubled) offset by a round trip at most.
TrueMeasure ==
  {m \in [phase : {"before_capture", "during_capture", "after_capture"}, rtt : Nat,
          offset : Int, clock : Int] :
     m.offset - 2 * m.clock \in -m.rtt .. m.rtt}

Written ==
  /\ program \in Program
  /\ clock \in Int
  /\ clean = NoFile \/ clean \in Seq(SampleRow \cup {Torn})
  /\ feeds \in [Feed -> {NoFile} \cup Seq(EventRow \cup {Torn})]
  /\ measures \in Seq(TrueMeasure)

\* The offset a server time sample reports is within its round trip of the clock.
LEMMA MeasuresAreTrue ==
  ASSUME NEW phase \in {"before_capture", "during_capture", "after_capture"},
         NEW c \in Int, NEW rtt \in Nat, NEW server \in {0, rtt}
  PROVE  ServerTimeSample(phase, c, c + rtt, server, c) \in TrueMeasure
<1> DEFINE offset == c + (c + rtt) - 2 * server
           sample == ServerTimeSample(phase, c, c + rtt, server, c)
<1>1. offset \in Int /\ offset - 2 * c \in -rtt .. rtt
  <2>1. CASE server = 0
    BY <2>1
  <2>2. CASE server = rtt
    BY <2>2
  <2> QED BY <2>1, <2>2
<1>2. (c + rtt) - c = rtt
  OBVIOUS
<1>3. sample = [phase |-> phase, rtt |-> (c + rtt) - c, offset |-> offset, clock |-> c]
  BY DEF ServerTimeSample
<1> HIDE DEF offset, sample
<1> QED BY <1>1, <1>2, <1>3 DEF TrueMeasure, sample

\* Whatever is appended or run, the files hold rows of their kind.
LEMMA WrittenStays ==
  ASSUME Written, [Next]_vars
  PROVE  Written'
<1>1. CASE UNCHANGED vars
  BY <1>1 DEF Written, vars
<1>2. ASSUME NEW line \in CleanLine[program], AppendClean(line)
      PROVE  Written'
  <2> DEFINE written == IF line = Torn THEN line ELSE [line EXCEPT !.wall = line.ts + clock]
  <2>1. line \in SampleRow \cup {Torn}
    BY <1>2, PipelineAssumption DEF Written
  <2>2. written \in SampleRow \cup {Torn}
    <3>1. CASE line = Torn
      BY <3>1
    <3>2. CASE line # Torn
      <4>1. line \in SampleRow
        BY <2>1, <3>2
      <4>2. line.ts + clock \in Int
        BY <4>1 DEF SampleRow, Written
      <4> DEFINE w == line.ts + clock
      <4> HIDE DEF w
      <4>3. [line EXCEPT !.wall = w] \in SampleRow
        BY <4>1, <4>2 DEF SampleRow, w
      <4> QED BY <3>2, <4>3 DEF w
    <3> QED BY <3>1, <3>2
  <2>3. Lines(clean) \in Seq(SampleRow \cup {Torn})
    BY DEF Lines, Written
  <2>4. clean' = Append(Lines(clean), written) /\ UNCHANGED <<program, feeds, measures, clock>>
    BY <1>2 DEF AppendClean
  <2> HIDE DEF written
  <2>5. clean' \in Seq(SampleRow \cup {Torn})
    BY <2>2, <2>3, <2>4
  <2> QED BY <2>4, <2>5 DEF Written
<1>3. ASSUME NEW f \in Feed, NEW line \in ReferenceLine[program], AppendReference(f, line)
      PROVE  Written'
  <2> DEFINE written == IF line = Torn THEN line ELSE ParseBookTicker(line, line.ts, line.ts + clock)
             file == Append(Lines(feeds[f]), written)
  <2>1. line \in QuoteRow \cup {Torn}
    BY <1>3, PipelineAssumption DEF Written
  <2>2. written \in EventRow \cup {Torn}
    <3>1. CASE line = Torn
      BY <3>1
    <3>2. CASE line # Torn
      <4>1. line \in QuoteRow
        BY <2>1, <3>2
      <4> DEFINE w == line.ts + clock
      <4>2. /\ line.ts \in Int /\ w \in Int /\ line.bid \in Int /\ line.ask \in Int
            /\ line.trade \in Int \cup {NoValue} /\ line.event \in Int \cup {NoValue}
        BY <4>1 DEF QuoteRow, Written
      <4> HIDE DEF w
      <4> DEFINE fine == line.bid > 0 /\ line.ask > 0 /\ line.bid < line.ask
                 event == ParseBookTicker(line, line.ts, w)
      <4>3. fine \in BOOLEAN /\ line.bid + line.ask \in Int
        BY <4>2
      <4>4. event = [ts |-> line.ts, wall |-> w, trade |-> line.trade, event |-> line.event,
                     bid |-> line.bid, ask |-> line.ask, price |-> line.bid + line.ask,
                     quality |-> fine]
        BY DEF ParseBookTicker
      <4> HIDE DEF event
      <4>5. /\ event.bid = line.bid /\ event.ask = line.ask
            /\ event.price = line.bid + line.ask /\ event.quality = fine
        <5> HIDE DEF fine
        <5> QED BY <4>4
      <4>6. event \in [ts : Int, wall : Int, trade : Int \cup {NoValue}, event : Int \cup {NoValue},
                       bid : Int, ask : Int, price : Int, quality : BOOLEAN]
        <5> HIDE DEF fine
        <5> QED BY <4>2, <4>3, <4>4
      <4>7. event.quality <=> event.bid > 0 /\ event.ask > 0 /\ event.bid < event.ask
        <5>1. event.quality <=> fine
          <6> HIDE DEF fine
          <6> QED BY <4>5
        <5> QED BY <4>5, <5>1
      <4>8. event \in EventRow
        BY <4>5, <4>6, <4>7 DEF EventRow, ReferenceRow
      <4> QED BY <3>2, <4>8 DEF w, event
    <3> QED BY <3>1, <3>2
  <2>3. feeds[f] \in {NoFile} \cup Seq(EventRow \cup {Torn})
    BY DEF Written
  <2>4. Lines(feeds[f]) \in Seq(EventRow \cup {Torn})
    BY <2>3 DEF Lines
  <2>5. feeds' = [feeds EXCEPT ![f] = file] /\ UNCHANGED <<program, clean, measures, clock>>
    BY <1>3 DEF AppendReference
  <2> HIDE DEF written
  <2>6. file \in Seq(EventRow \cup {Torn})
    BY <2>2, <2>4
  <2> HIDE DEF file
  <2> QED BY <2>5, <2>6 DEF Written
<1>4. CASE MeasureClock
  <2>1. PICK phase \in {"before_capture", "during_capture", "after_capture"},
             rtt \in Rtt, answered \in {0, 1} :
          measures' = Append(measures, ServerTimeSample(phase, clock, clock + rtt, answered * rtt, clock))
    BY <1>4 DEF MeasureClock
  <2> DEFINE sample == ServerTimeSample(phase, clock, clock + rtt, answered * rtt, clock)
  <2>2. rtt \in Nat /\ clock \in Int
    BY PipelineAssumption DEF Written
  <2>3. answered * rtt \in {0, rtt}
    BY <2>2
  <2>4. sample \in TrueMeasure
    BY <2>2, <2>3, MeasuresAreTrue
  <2> HIDE DEF sample
  <2>5. measures' \in Seq(TrueMeasure)
    BY <2>1, <2>4 DEF Written, sample
  <2> QED BY <1>4, <2>5 DEF MeasureClock, Written
<1>5. CASE StepClock
  BY <1>5, PipelineAssumption DEF StepClock, Written
<1>6. ASSUME NEW p, NEW written, NEW status, NEW details, Run(p, written, status, details)
      PROVE  Written'
  BY <1>6 DEF Run, Written
<1>7. CASE RunLabels
  BY <1>6, <1>7 DEF RunLabels
<1>8. CASE RunBookTicker
  BY <1>6, <1>8 DEF RunBookTicker
<1>9. CASE RunBenchmark
  BY <1>6, <1>9 DEF RunBenchmark
<1>10. CASE RunProtocol
  BY <1>6, <1>10 DEF RunProtocol
<1>11. CASE RunCorrected
  BY <1>6, <1>11 DEF RunCorrected
<1>12. CASE RunStreaming
  BY <1>6, <1>12 DEF RunStreaming
<1> QED BY <1>1, <1>2, <1>3, <1>4, <1>5, <1>7, <1>8, <1>9, <1>10, <1>11, <1>12 DEF Next

\* The programs have different names.
LEMMA NamesDiffer ==
  /\ Labels # BookTicker /\ Labels # Benchmark /\ Labels # Protocol /\ Labels # Corrected /\ Labels # Streaming
  /\ BookTicker # Benchmark /\ BookTicker # Protocol /\ BookTicker # Corrected /\ BookTicker # Streaming
  /\ Benchmark # Protocol /\ Benchmark # Corrected /\ Benchmark # Streaming
  /\ Protocol # Corrected /\ Protocol # Streaming /\ Corrected # Streaming
  BY DEF Labels, BookTicker, Benchmark, Protocol, Corrected, Streaming

-----------------------------------------------------------------------------
(* What a file that passes is like. *)

\* The file holds clean samples only.
AllClean(file) == file \in Seq(SampleRow) /\ \A i \in DOMAIN file : CleanSampleErrors(file[i]) = {}

\* Its times increase strictly.
IsStrict(times) == \A i, j \in 1 .. Len(times) : i < j => times[i] < times[j]

\* A clean sample has positive prices that do not cross.
LEMMA CleanPrices ==
  ASSUME NEW row \in SampleRow, CleanSampleErrors(row) = {}
  PROVE  /\ row.ts \in Int /\ row.bid \in Int /\ row.ask \in Int
         /\ row.bid > 0 /\ row.ask > 0 /\ row.bid < row.ask
<1>1. row.ts \in Int /\ row.bid \in Int /\ row.ask \in Int
  BY DEF SampleRow
<1>2. "non_positive_best_price" \notin CleanSampleErrors(row)
  OBVIOUS
<1>3. "best_bid_not_less_than_best_ask" \notin CleanSampleErrors(row)
  OBVIOUS
<1>4. ~(row.bid <= 0 \/ row.ask <= 0)
  BY <1>2 DEF CleanSampleErrors
<1>5. ~(row.bid >= row.ask)
  BY <1>3 DEF CleanSampleErrors
<1> QED BY <1>1, <1>4, <1>5

\* A valid file holds clean samples only, and all of it is read.
LEMMA ValidFile ==
  ASSUME NEW file \in Seq(SampleRow \cup {Torn}), ValidateCleanSamples(file).valid
  PROVE  AllClean(file) /\ ValidateCleanSamples(file).samples = file /\ file # << >>
<1> DEFINE bad == {k \in DOMAIN file : ~IsClean(file[k])}
<1>1. file # NoFile /\ file # << >> /\ bad = {} /\ ValidateCleanSamples(file).samples = Objects(file)
  BY DEF ValidateCleanSamples
<1>2. \A k \in DOMAIN file : file[k] # Torn /\ CleanSampleErrors(file[k]) = {}
  BY <1>1 DEF IsClean
<1>3. DOMAIN file \subseteq {k \in DOMAIN file : IsObject(file[k])}
  BY <1>2 DEF IsObject
<1>4. Objects(file) = file
  BY <1>3, PickedAll DEF Objects, Those
<1>5. \A k \in 1 .. Len(file) : file[k] \in SampleRow
  <2>1. DOMAIN file = 1 .. Len(file) /\ \A k \in 1 .. Len(file) : file[k] \in SampleRow \cup {Torn}
    OBVIOUS
  <2> QED BY <1>2, <2>1
<1>6. file \in Seq(SampleRow)
  BY <1>5
<1> QED BY <1>1, <1>2, <1>4, <1>6 DEF AllClean

\* The times of a file are numbers.
LEMMA TimesOf ==
  ASSUME NEW file \in Seq(SampleRow)
  PROVE  /\ Times(file) \in Seq(Int) /\ Len(Times(file)) = Len(file)
         /\ \A k \in 1 .. Len(file) : Times(file)[k] = file[k].ts
<1>1. Len(file) \in Nat /\ DOMAIN file = 1 .. Len(file) /\ \A k \in 1 .. Len(file) : file[k] \in SampleRow
  OBVIOUS
<1>2. \A k \in 1 .. Len(file) : file[k].ts \in Int
  BY <1>1 DEF SampleRow
<1>3. Times(file) = [k \in 1 .. Len(file) |-> file[k].ts]
  BY <1>1 DEF Times
<1> QED BY <1>1, <1>2, <1>3

\* Neighbours in strict order make a list in strict order.
LEMMA NeighboursInOrder ==
  ASSUME NEW a \in Seq(Int), \A k \in 1 .. Len(a) - 1 : a[k] < a[k + 1]
  PROVE  IsStrict(a)
<1>1. Len(a) \in Nat /\ \A k \in 1 .. Len(a) : a[k] \in Int
  OBVIOUS
<1> SUFFICES ASSUME NEW i \in 1 .. Len(a), \E j \in 1 .. Len(a) : i < j /\ ~(a[i] < a[j]) PROVE FALSE
  BY DEF IsStrict
<1> DEFINE bad == {j \in Nat : j <= Len(a) /\ i < j /\ ~(a[i] < a[j])}
<1>2. PICK j \in bad : \A m \in bad : j <= m
  <2>1. bad \in SUBSET Nat
    OBVIOUS
  <2>2. bad # {}
    BY <1>1
  <2> HIDE DEF bad
  <2> QED BY <2>1, <2>2, LeastOf
<1>3. j \in 1 .. Len(a) /\ i < j /\ ~(a[i] < a[j])
  BY <1>1, <1>2
<1>4. j - 1 \in 1 .. Len(a) - 1 /\ j - 1 \in Nat /\ j - 1 < j
  BY <1>1, <1>3
<1>5. j - 1 \notin bad
  <2> HIDE DEF bad
  <2> QED BY <1>2, <1>3, <1>4
<1>6. i = j - 1 \/ a[i] < a[j - 1]
  BY <1>1, <1>3, <1>4, <1>5
<1>7. a[j - 1] < a[j]
  BY <1>3, <1>4
<1> QED BY <1>1, <1>3, <1>4, <1>6, <1>7

\* A count of nothing.
LEMMA EmptyCount ==
  ASSUME NEW n \in Nat, NEW T \in SUBSET (1 .. n), Cardinality(T) = 0
  PROVE  T = {}
<1>1. IsFiniteSet(1 .. n)
  BY FS_Interval
<1>2. IsFiniteSet(T)
  BY <1>1, FS_Subset
<1> QED BY <1>2, FS_EmptySet

\* A file with neither backwards nor duplicate times is in strict order.
LEMMA StrictTimes ==
  ASSUME NEW file \in Seq(SampleRow),
         TimestampQuality(file).backwards = 0, TimestampQuality(file).duplicates = 0
  PROVE  IsStrict(Times(file))
<1> DEFINE a == Times(file)
           gaps == Gaps(a)
<1>1. a \in Seq(Int)
  BY TimesOf
<1>2. Len(a) \in Nat /\ \A k \in 1 .. Len(a) : a[k] \in Int
  BY <1>1
<1>3. Cardinality({k \in DOMAIN gaps : gaps[k] < 0}) = 0
  BY DEF TimestampQuality
<1>4. Cardinality({k \in DOMAIN gaps : gaps[k] = 0}) = 0
  BY DEF TimestampQuality
<1> HIDE DEF a
<1>5. CASE a = << >>
  BY <1>5 DEF IsStrict, a
<1>6. CASE a # << >>
  <2>1. Len(a) - 1 \in Nat
    BY <1>1, <1>6
  <2>2. DOMAIN gaps = 1 .. Len(a) - 1 /\ \A k \in 1 .. Len(a) - 1 : gaps[k] = a[k + 1] - a[k]
    BY <1>6 DEF Gaps
  <2> HIDE DEF gaps
  <2>3. {k \in DOMAIN gaps : gaps[k] < 0} = {}
    BY <1>3, <2>1, <2>2, EmptyCount
  <2>4. {k \in DOMAIN gaps : gaps[k] = 0} = {}
    BY <1>4, <2>1, <2>2, EmptyCount
  <2>5. \A k \in 1 .. Len(a) - 1 : a[k] < a[k + 1]
    <3> TAKE k \in 1 .. Len(a) - 1
    <3>1. a[k] \in Int /\ a[k + 1] \in Int
      BY <1>2
    <3>2. ~(a[k + 1] - a[k] < 0) /\ ~(a[k + 1] - a[k] = 0)
      BY <2>2, <2>3, <2>4
    <3> QED BY <3>1, <3>2
  <2> QED BY <1>1, <2>5, NeighboursInOrder DEF a
<1> QED BY <1>5, <1>6

-----------------------------------------------------------------------------
(* The labels of phase 4.2. *)

\* Where the sample is that a label of row i should be taken from.
IsFuture(file, i, h, k) ==
  /\ k \in i + 1 .. Len(file) + 1
  /\ \A j \in 1 .. k - 1 : file[j].ts < file[i].ts + HorizonMs[h]
  /\ \A j \in k .. Len(file) : file[j].ts >= file[i].ts + HorizonMs[h]

\* select_future_index finds the edge of the samples before the target.
LEMMA FutureFound ==
  ASSUME NEW file \in Seq(SampleRow), IsStrict(Times(file)), NEW i \in 1 .. Len(file), NEW h \in Horizon
  PROVE  \E k : /\ IsFuture(file, i, h, k)
                /\ SelectFutureIndex(Times(file), i, HorizonMs[h])
                     = IF k <= Len(file) THEN k ELSE NoIndex
<1> DEFINE a == Times(file)
           x == a[i] + HorizonMs[h]
           k == BisectLeft(a, x, i + 1)
<1>1. a \in Seq(Int) /\ Len(a) = Len(file) /\ Len(file) \in Nat
  BY TimesOf
<1>2. \A j \in 1 .. Len(file) : a[j] = file[j].ts /\ a[j] \in Int
  BY <1>1, TimesOf
<1>3. HorizonMs[h] \in Nat \ {0}
  BY HorizonAssumption
<1>4. \A j, m \in 1 .. Len(file) : j < m => a[j] < a[m]
  BY <1>1 DEF IsStrict
<1> HIDE DEF a
<1>5. IsOrdered(a, Len(a))
  <2> SUFFICES ASSUME NEW j \in 1 .. Len(a), NEW m \in 1 .. Len(a), j <= m PROVE a[j] <= a[m]
    BY DEF IsOrdered
  <2>1. j = m \/ j < m
    BY <1>1
  <2> QED BY <1>1, <1>2, <1>4, <2>1
<1>6. x \in Int /\ i + 1 \in 1 .. Len(a) + 1
  BY <1>1, <1>2, <1>3
<1> HIDE DEF x
<1>7. /\ k \in i + 1 .. Len(a) + 1
      /\ \A j \in i + 1 .. k - 1 : a[j] < x
      /\ \A j \in k .. Len(a) : a[j] >= x
  BY <1>1, <1>5, <1>6, BisectLeftFinds
<1>8. SelectFutureIndex(a, i, HorizonMs[h]) = IF k <= Len(file) THEN k ELSE NoIndex
  BY <1>1 DEF SelectFutureIndex, x
<1> HIDE DEF k
<1>9. \A j \in 1 .. k - 1 : a[j] < x
  <2> TAKE j \in 1 .. k - 1
  <2>1. CASE j > i
    BY <1>1, <1>7, <2>1
  <2>2. CASE j <= i
    <3>1. j \in 1 .. Len(file) /\ a[j] <= a[i]
      BY <1>1, <1>5, <2>2 DEF IsOrdered
    <3> QED BY <1>2, <1>3, <3>1 DEF x
  <2> QED BY <1>1, <1>7, <2>1, <2>2
<1>10. IsFuture(file, i, h, k)
  <2>1. x = file[i].ts + HorizonMs[h]
    BY <1>2 DEF x
  <2>2. \A j \in 1 .. k - 1 : j \in 1 .. Len(file)
    BY <1>1, <1>7
  <2>3. \A j \in k .. Len(file) : j \in 1 .. Len(file)
    BY <1>1, <1>7
  <2> QED BY <1>1, <1>2, <1>7, <1>9, <2>1, <2>2, <2>3 DEF IsFuture
<1> QED BY <1>8, <1>10 DEF a

\* What _build_label says of the sample it found.
LEMMA LabelOf ==
  ASSUME NEW file, AllClean(file), IsStrict(Times(file)), NEW i \in 1 .. Len(file), NEW h \in Horizon,
         NEW k, IsFuture(file, i, h, k),
         SelectFutureIndex(Times(file), i, HorizonMs[h]) = IF k <= Len(file) THEN k ELSE NoIndex
  PROVE  LET label == BuildLabel(file, i, h)
         IN  /\ label.index = IF k <= Len(file) THEN k ELSE NoIndex
             /\ label.valid <=> /\ k <= Len(file)
                                /\ file[k].ts <= file[i].ts + HorizonMs[h] + MaxFutureGap[h]
             /\ label.valid \in BOOLEAN
<1> DEFINE a == Times(file)
           n == SelectFutureIndex(a, i, HorizonMs[h])
           target == a[i] + HorizonMs[h]
<1>1. file \in Seq(SampleRow) /\ \A j \in 1 .. Len(file) : CleanSampleErrors(file[j]) = {}
  BY DEF AllClean
<1>2. Len(file) \in Nat /\ \A j \in 1 .. Len(file) : file[j] \in SampleRow
  BY <1>1
<1>3. \A j \in 1 .. Len(file) : a[j] = file[j].ts
  BY <1>1, TimesOf
<1>4. \A j \in 1 .. Len(file) : file[j].ts \in Int /\ ~(Mid(file[j]) <= 0) /\ ~(Spread(file[j]) < 0)
  <2> TAKE j \in 1 .. Len(file)
  <2> DEFINE row == file[j]
  <2>1. row \in SampleRow /\ CleanSampleErrors(row) = {}
    BY <1>1, <1>2
  <2> HIDE DEF row
  <2>2. /\ row.ts \in Int /\ row.bid \in Int /\ row.ask \in Int
        /\ row.bid > 0 /\ row.ask > 0 /\ row.bid < row.ask
    BY <2>1, CleanPrices
  <2>3. row.ts \in Int /\ ~(Mid(row) <= 0) /\ ~(Spread(row) < 0)
    BY <2>2 DEF Mid, Spread
  <2> QED BY <2>3 DEF row
<1>5. HorizonMs[h] \in Nat \ {0} /\ MaxFutureGap[h] \in Nat
  BY HorizonAssumption
<1>6. k \in i + 1 .. Len(file) + 1 /\ k \in Nat /\ k # NoIndex
  BY <1>2 DEF IsFuture, NoIndex
<1>7. ~(Mid(file[i]) <= 0)
  BY <1>4
<1> HIDE DEF a, n
<1>8. CASE k > Len(file)
  <2>1. n = NoIndex
    BY <1>2, <1>6, <1>8 DEF n, a
  <2>2. BuildLabel(file, i, h) = Unlabelled(target, "NO_FUTURE_SAMPLE")
    BY <1>7, <2>1 DEF BuildLabel, n, a
  <2> QED BY <1>2, <1>6, <1>8, <2>2 DEF Unlabelled, NoIndex
<1>9. CASE k <= Len(file)
  <2>1. n = k /\ n # NoIndex /\ k \in 1 .. Len(file)
    BY <1>2, <1>6, <1>9 DEF n, a
  <2>2. ~(Mid(file[k]) <= 0) /\ ~(Spread(file[i]) < 0)
    BY <1>4, <2>1
  <2> DEFINE found == [Unlabelled(target, NoReason) EXCEPT !.index = n, !.future = a[n], !.gap = a[n] - target]
  <2>3. found.index = n /\ found.gap = a[n] - target /\ found.valid = FALSE
    BY DEF Unlabelled
  <2>4. a[n] - target > MaxFutureGap[h] <=> ~(file[k].ts <= file[i].ts + HorizonMs[h] + MaxFutureGap[h])
    BY <1>3, <1>4, <1>5, <2>1
  <2>5. CASE a[n] - target > MaxFutureGap[h]
    <3>1. BuildLabel(file, i, h) = [found EXCEPT !.reason = "FUTURE_GAP_TOO_LARGE"]
      BY <1>7, <2>1, <2>3, <2>5 DEF BuildLabel, n, a
    <3>2. BuildLabel(file, i, h).index = n /\ BuildLabel(file, i, h).valid = FALSE
      BY <2>3, <3>1 DEF Unlabelled
    <3> QED BY <1>9, <2>1, <2>4, <2>5, <3>2
  <2>6. CASE ~(a[n] - target > MaxFutureGap[h])
    <3>1. \E d, e : BuildLabel(file, i, h) = [found EXCEPT !.valid = TRUE, !.direction = d, !.spreadDirection = e]
      BY <1>7, <2>1, <2>2, <2>3, <2>6 DEF BuildLabel, n, a
    <3>2. BuildLabel(file, i, h).index = n /\ BuildLabel(file, i, h).valid = TRUE
      BY <2>3, <3>1 DEF Unlabelled
    <3> QED BY <1>9, <2>1, <2>4, <2>6, <3>2
  <2> QED BY <2>5, <2>6
<1> QED BY <1>2, <1>6, <1>8, <1>9

-----------------------------------------------------------------------------
(* The features of phase 4.2. *)

\* The past features of a sample need no more of the file than ends with it.
LEMMA PastOf ==
  ASSUME NEW file \in Seq(SampleRow), IsStrict(Times(file)), NEW i \in 1 .. Len(file)
  PROVE  PastFeatures(file, i) = PastFeatures(SubSeq(file, 1, i), i)
<1> DEFINE start == SubSeq(file, 1, i)
           a == Times(file)
           b == Times(start)
<1>1. Len(file) \in Nat /\ i \in Nat /\ i <= Len(file)
  OBVIOUS
<1>2. start \in Seq(SampleRow) /\ Len(start) = i /\ \A j \in 1 .. i : start[j] = file[j]
  OBVIOUS
<1> HIDE DEF start
<1>3. a \in Seq(Int) /\ Len(a) = Len(file)
  BY TimesOf
<1>4. b \in Seq(Int) /\ Len(b) = i
  BY <1>2, TimesOf
<1>5. \A j \in 1 .. i : a[j] = file[j].ts /\ b[j] = a[j] /\ a[j] \in Int
  <2> TAKE j \in 1 .. i
  <2>1. j \in 1 .. Len(file) /\ j \in 1 .. Len(start)
    BY <1>1, <1>2
  <2>2. a[j] = file[j].ts
    BY <2>1, TimesOf
  <2>3. b[j] = start[j].ts
    BY <1>2, <2>1, TimesOf
  <2>4. a[j] \in Int
    BY <1>3, <2>1
  <2> QED BY <1>2, <2>2, <2>3, <2>4
<1>6. IsOrdered(a, i) /\ IsOrdered(b, i)
  <2>1. \A j, m \in 1 .. Len(file) : j < m => a[j] < a[m]
    BY <1>3 DEF IsStrict
  <2> HIDE DEF a, b
  <2>2. ASSUME NEW j \in 1 .. i, NEW m \in 1 .. i, j <= m PROVE a[j] <= a[m]
    <3>1. j = m \/ j < m
      BY <2>2
    <3> QED BY <1>1, <1>5, <2>1, <2>2, <3>1
  <2> QED BY <1>5, <2>2 DEF IsOrdered
<1> HIDE DEF a, b
<1>7. \A x \in Int : BisectRight(a, x, i + 1) = BisectRight(b, x, i + 1) /\ BisectRight(a, x, i + 1) \in 1 .. i + 1
  <2> TAKE x \in Int
  <2> DEFINE k == BisectRight(a, x, i + 1)
             m == BisectRight(b, x, i + 1)
  <2>1. i \in 0 .. Len(a) /\ i \in 0 .. Len(b)
    BY <1>1, <1>3, <1>4
  <2>2. k \in 1 .. i + 1 /\ (\A j \in 1 .. k - 1 : a[j] <= x) /\ \A j \in k .. i : a[j] > x
    BY <1>3, <1>6, <2>1, BisectRightFinds
  <2>3. m \in 1 .. i + 1 /\ (\A j \in 1 .. m - 1 : b[j] <= x) /\ \A j \in m .. i : b[j] > x
    BY <1>4, <1>6, <2>1, BisectRightFinds
  <2> HIDE DEF k, m
  <2>4. ~(k < m)
    <3> SUFFICES ASSUME k < m PROVE FALSE
      OBVIOUS
    <3>1. k \in 1 .. i /\ k \in k .. i /\ k \in 1 .. m - 1
      BY <1>1, <2>2, <2>3
    <3>2. a[k] = b[k] /\ a[k] \in Int
      BY <1>5, <3>1
    <3>3. a[k] > x /\ b[k] <= x
      BY <2>2, <2>3, <3>1, <3>2
    <3> QED BY <3>2, <3>3
  <2>5. ~(m < k)
    <3> SUFFICES ASSUME m < k PROVE FALSE
      OBVIOUS
    <3>1. m \in 1 .. i /\ m \in m .. i /\ m \in 1 .. k - 1
      BY <1>1, <2>2, <2>3
    <3>2. a[m] = b[m] /\ a[m] \in Int
      BY <1>5, <3>1
    <3>3. b[m] > x /\ a[m] <= x
      BY <2>2, <2>3, <3>1, <3>2
    <3> QED BY <3>2, <3>3
  <2> QED BY <2>2, <2>3, <2>4, <2>5 DEF k, m
<1> DEFINE Found(times, samples, f) ==
             LET target == times[i] - LookBackMs[f]
                 past == BisectRight(times, target, i + 1) - 1
             IN  IF past = NoIndex
                   THEN [value |-> NoValue, source |-> NoIndex, warning |-> "no_past_sample"]
                 ELSE IF target - times[past] > PastMaxGap[f]
                   THEN [value |-> NoValue, source |-> NoIndex, warning |-> "gap_too_large"]
                 ELSE [value |-> <<Mid(samples[i]), Spread(samples[i]),
                                   Mid(samples[past]), Spread(samples[past])>>,
                       source |-> past, warning |-> NoReason]
<1>8. PastFeatures(file, i) = [f \in PastFeature |-> Found(a, file, f)]
  BY DEF PastFeatures, a
<1>9. PastFeatures(start, i) = [f \in PastFeature |-> Found(b, start, f)]
  BY DEF PastFeatures, b
<1>10. \A f \in PastFeature : Found(a, file, f) = Found(b, start, f)
  <2> TAKE f \in PastFeature
  <2> DEFINE target == a[i] - LookBackMs[f]
             past == BisectRight(a, target, i + 1) - 1
  <2>1. i \in 1 .. i /\ a[i] = b[i] /\ start[i] = file[i] /\ a[i] \in Int
    BY <1>1, <1>2, <1>5
  <2>2. LookBackMs[f] \in Nat
    BY HorizonAssumption
  <2>3. target \in Int
    BY <2>1, <2>2
  <2>4. BisectRight(a, target, i + 1) = BisectRight(b, target, i + 1) /\ past \in 0 .. i
    <3> HIDE DEF target
    <3>1. BisectRight(a, target, i + 1) = BisectRight(b, target, i + 1)
      BY <1>7, <2>3
    <3>2. BisectRight(a, target, i + 1) \in 1 .. i + 1
      BY <1>7, <2>3
    <3> QED BY <1>1, <3>1, <3>2
  <2>5. past # NoIndex => a[past] = b[past] /\ start[past] = file[past]
    <3> HIDE DEF past
    <3>1. past # NoIndex => past \in 1 .. i
      BY <1>1, <2>4 DEF NoIndex
    <3> QED BY <1>2, <1>5, <3>1
  <2> QED BY <2>1, <2>4, <2>5
<1> HIDE DEF Found
<1> QED BY <1>8, <1>9, <1>10 DEF start

-----------------------------------------------------------------------------
(* A passing run of phase 4.2. *)

\* What is found in the rows of a file that passes.
Earliest(samples, rows) ==
  LET key(k) == samples[k].ts
      target(i, h) == samples[i].ts + HorizonMs[h]
      future(i, h) == {k \in DOMAIN samples : samples[k].ts >= target(i, h)}
      label(i, h) == rows[i].labels[h]
  IN  /\ DOMAIN rows = DOMAIN samples
      /\ \A i \in DOMAIN samples, h \in Horizon :
           /\ label(i, h).index = NoIndex <=> future(i, h) = {}
           /\ label(i, h).index = NoIndex <=> target(i, h) > Last(samples).ts
           /\ label(i, h).index # NoIndex => IsFirst(label(i, h).index, future(i, h), key)
           /\ label(i, h).valid <=>
                \E k \in future(i, h) : samples[k].ts <= target(i, h) + MaxFutureGap[h]
      /\ \A h \in Horizon :
           Cardinality({i \in DOMAIN samples : label(i, h).valid}) * 100
             >= MinValidRate[h] * Cardinality({i \in DOMAIN samples : future(i, h) # {}})

Forgetful(samples, rows) ==
  \A i \in DOMAIN rows :
    LET known == GenerateLabeledRows(SubSeq(samples, 1, i))[i]
    IN  rows[i].features = known.features /\ rows[i].past = known.past

\* One label, for a file in strict order.
LEMMA LabelIsEarliest ==
  ASSUME NEW file, AllClean(file), IsStrict(Times(file)), NEW i \in 1 .. Len(file), NEW h \in Horizon
  PROVE  LET label == BuildLabel(file, i, h)
             target == file[i].ts + HorizonMs[h]
             future == {k \in 1 .. Len(file) : file[k].ts >= target}
         IN  /\ label.index = NoIndex <=> future = {}
             /\ label.index = NoIndex <=> target > file[Len(file)].ts
             /\ label.index # NoIndex =>
                  /\ label.index \in future
                  /\ \A j \in future :
                       \/ file[label.index].ts < file[j].ts
                       \/ file[label.index].ts = file[j].ts /\ label.index <= j
             /\ label.valid <=> \E k \in future : file[k].ts <= target + MaxFutureGap[h]
<1> DEFINE label == BuildLabel(file, i, h)
           target == file[i].ts + HorizonMs[h]
           future == {k \in 1 .. Len(file) : file[k].ts >= target}
<1>1. file \in Seq(SampleRow) /\ Len(file) \in Nat
  BY DEF AllClean
<1>2. \A j \in 1 .. Len(file) : file[j].ts \in Int
  <2> TAKE j \in 1 .. Len(file)
  <2>1. file[j] \in SampleRow
    BY <1>1
  <2> QED BY <2>1 DEF SampleRow
<1>3. target \in Int /\ MaxFutureGap[h] \in Nat
  BY <1>2, HorizonAssumption
<1>4. PICK k : /\ IsFuture(file, i, h, k)
               /\ SelectFutureIndex(Times(file), i, HorizonMs[h])
                    = IF k <= Len(file) THEN k ELSE NoIndex
  BY <1>1, FutureFound
<1>5. /\ label.index = IF k <= Len(file) THEN k ELSE NoIndex
      /\ label.valid <=> k <= Len(file) /\ file[k].ts <= target + MaxFutureGap[h]
  BY <1>4, LabelOf
<1>6. /\ k \in i + 1 .. Len(file) + 1
      /\ \A j \in 1 .. k - 1 : file[j].ts < target
      /\ \A j \in k .. Len(file) : file[j].ts >= target
  BY <1>4 DEF IsFuture
<1>7. \A j, m \in 1 .. Len(file) : j < m => file[j].ts < file[m].ts
  <2>1. Len(Times(file)) = Len(file) /\ \A j \in 1 .. Len(file) : Times(file)[j] = file[j].ts
    BY <1>1, TimesOf
  <2> QED BY <2>1 DEF IsStrict
<1> HIDE DEF label, target
<1>8. \A j \in 1 .. Len(file) : j \in future <=> j >= k
  <2> TAKE j \in 1 .. Len(file)
  <2>1. CASE j >= k
    BY <1>1, <1>6, <2>1
  <2>2. CASE j < k
    <3>1. j \in 1 .. k - 1 /\ file[j].ts \in Int
      BY <1>1, <1>2, <1>6, <2>2
    <3> QED BY <1>3, <1>6, <2>2, <3>1
  <2> QED BY <1>1, <1>6, <2>1, <2>2
<1>9. future \subseteq 1 .. Len(file)
  OBVIOUS
<1>10. CASE k > Len(file)
  <2>1. label.index = NoIndex /\ ~label.valid
    BY <1>1, <1>5, <1>6, <1>10
  <2>2. future = {}
    <3>1. \A j \in 1 .. Len(file) : ~(j >= k)
      BY <1>1, <1>6, <1>10
    <3> QED BY <1>8, <1>9, <3>1
  <2>3. target > file[Len(file)].ts
    <3>1. Len(file) \in 1 .. k - 1 /\ Len(file) \in 1 .. Len(file)
      BY <1>1, <1>6, <1>10
    <3> QED BY <1>2, <1>3, <1>6, <3>1
  <2> HIDE DEF future
  <2> QED BY <2>1, <2>2, <2>3 DEF label, target, future
<1>11. CASE k <= Len(file)
  <2>1. k \in 1 .. Len(file) /\ k # NoIndex
    BY <1>1, <1>6, <1>11 DEF NoIndex
  <2>2. label.index = k /\ (label.valid <=> file[k].ts <= target + MaxFutureGap[h])
    BY <1>5, <1>11
  <2>3. k \in future /\ ~(target > file[Len(file)].ts)
    <3>1. Len(file) \in k .. Len(file) /\ Len(file) \in 1 .. Len(file)
      BY <1>1, <2>1
    <3> QED BY <1>2, <1>3, <1>6, <1>8, <2>1, <3>1
  <2>4. \A j \in future : /\ j \in 1 .. Len(file)
                          /\ file[k].ts < file[j].ts \/ (file[k].ts = file[j].ts /\ k <= j)
    <3> TAKE j \in future
    <3>1. j \in 1 .. Len(file) /\ k <= j
      BY <1>8
    <3> QED BY <1>1, <1>7, <2>1, <3>1
  <2>5. (\E j \in future : file[j].ts <= target + MaxFutureGap[h]) <=> file[k].ts <= target + MaxFutureGap[h]
    <3> HIDE DEF future
    <3> QED BY <1>2, <1>3, <2>1, <2>3, <2>4
  <2> HIDE DEF future
  <2> QED BY <2>1, <2>2, <2>3, <2>4, <2>5 DEF label, target, future
<1> QED BY <1>1, <1>6, <1>10, <1>11

\* The rows of a file that passes are what LabelsAreEarliest asks for,
LEMMA GeneratedIsEarliest ==
  ASSUME NEW file, AllClean(file), IsStrict(Times(file)), file # << >>,
         ValidateCleanSamples(file).samples = file,
         HardFailReasons(ValidateCleanSamples(file), GenerateLabeledRows(file)) = {}
  PROVE  Earliest(file, GenerateLabeledRows(file))
<1> DEFINE rows == GenerateLabeledRows(file)
           target(i, h) == file[i].ts + HorizonMs[h]
           future(i, h) == {k \in DOMAIN file : file[k].ts >= target(i, h)}
           label(i, h) == rows[i].labels[h]
<1>1. file \in Seq(SampleRow) /\ Len(file) \in Nat /\ DOMAIN file = 1 .. Len(file)
  BY DEF AllClean
<1>2. DOMAIN rows = DOMAIN file
  BY DEF GenerateLabeledRows
<1>3. \A i \in DOMAIN file, h \in Horizon : label(i, h) = BuildLabel(file, i, h)
  BY DEF GenerateLabeledRows
<1>4. Last(file) = file[Len(file)]
  BY DEF Last
<1> HIDE DEF rows
<1>5. \A i \in DOMAIN file, h \in Horizon :
        /\ label(i, h).index = NoIndex <=> future(i, h) = {}
        /\ label(i, h).index = NoIndex <=> target(i, h) > Last(file).ts
        /\ label(i, h).index # NoIndex =>
             /\ label(i, h).index \in future(i, h)
             /\ \A j \in future(i, h) :
                  \/ file[label(i, h).index].ts < file[j].ts
                  \/ file[label(i, h).index].ts = file[j].ts /\ label(i, h).index <= j
        /\ label(i, h).valid <=>
             \E k \in future(i, h) : file[k].ts <= target(i, h) + MaxFutureGap[h]
  <2> TAKE i \in DOMAIN file, h \in Horizon
  <2>1. i \in 1 .. Len(file)
    BY <1>1
  <2> DEFINE l == BuildLabel(file, i, h)
             F == {k \in 1 .. Len(file) : file[k].ts >= target(i, h)}
  <2>2. /\ l.index = NoIndex <=> F = {}
        /\ l.index = NoIndex <=> target(i, h) > file[Len(file)].ts
        /\ l.index # NoIndex =>
             /\ l.index \in F
             /\ \A j \in F : \/ file[l.index].ts < file[j].ts
                             \/ file[l.index].ts = file[j].ts /\ l.index <= j
        /\ l.valid <=> \E k \in F : file[k].ts <= target(i, h) + MaxFutureGap[h]
    BY <2>1, LabelIsEarliest
  <2>3. label(i, h) = l /\ future(i, h) = F
    BY <1>1, <1>3
  <2> HIDE DEF l, F, label, future, target
  <2> QED BY <1>4, <2>2, <2>3
<1>6. \A h \in Horizon : RateReached(file, rows, h)
  <2>1. "valid_rate_eligible_rows" \notin HardFailReasons(ValidateCleanSamples(file), rows)
    BY DEF rows
  <2> QED BY <2>1 DEF HardFailReasons
<1>7. \A h \in Horizon :
        Cardinality({i \in DOMAIN file : label(i, h).valid}) * 100
          >= MinValidRate[h] * Cardinality({i \in DOMAIN file : future(i, h) # {}})
  <2> TAKE h \in Horizon
  <2>1. Cardinality(ValidLabels(rows, h)) * 100 >= MinValidRate[h] * Cardinality(Eligible(file, h))
    BY <1>6 DEF RateReached
  <2>2. ValidLabels(rows, h) = {i \in DOMAIN file : label(i, h).valid}
    BY <1>2 DEF ValidLabels
  <2>3. Eligible(file, h) = {i \in DOMAIN file : future(i, h) # {}}
    <3> HIDE DEF future
    <3>1. \A i \in DOMAIN file : future(i, h) # {} <=> ~(target(i, h) > Last(file).ts)
      BY <1>5
    <3>2. \A i \in DOMAIN file : file[i].ts + HorizonMs[h] <= Last(file).ts <=> ~(target(i, h) > Last(file).ts)
      <4> TAKE i \in DOMAIN file
      <4>1. Len(file) \in 1 .. Len(file)
        BY <1>1
      <4>2. file[i] \in SampleRow /\ Last(file) \in SampleRow
        BY <1>1, <1>4, <4>1
      <4>3. file[i].ts \in Int /\ Last(file).ts \in Int /\ HorizonMs[h] \in Nat
        BY <4>2, HorizonAssumption DEF SampleRow
      <4> QED BY <4>3
    <3> QED BY <3>1, <3>2 DEF Eligible
  <2> HIDE DEF label, future
  <2> QED BY <2>1, <2>2, <2>3
<1> QED BY <1>2, <1>5, <1>7 DEF Earliest, IsFirst, rows

\* and what FeaturesForgetFuture asks for.
LEMMA GeneratedForgets ==
  ASSUME NEW file \in Seq(SampleRow), IsStrict(Times(file))
  PROVE  Forgetful(file, GenerateLabeledRows(file))
<1> SUFFICES ASSUME NEW i \in DOMAIN GenerateLabeledRows(file)
             PROVE  LET known == GenerateLabeledRows(SubSeq(file, 1, i))[i]
                    IN  /\ GenerateLabeledRows(file)[i].features = known.features
                        /\ GenerateLabeledRows(file)[i].past = known.past
  BY DEF Forgetful
<1> DEFINE start == SubSeq(file, 1, i)
<1>1. i \in 1 .. Len(file)
  BY DEF GenerateLabeledRows
<1>2. i \in DOMAIN start /\ i \in DOMAIN file /\ start[i] = file[i]
  BY <1>1
<1>3. PastFeatures(file, i) = PastFeatures(start, i)
  BY <1>1, PastOf
<1> HIDE DEF start
<1>4. /\ GenerateLabeledRows(start)[i].features = CurrentFeatures(start[i])
      /\ GenerateLabeledRows(start)[i].past = PastFeatures(start, i)
  BY <1>2 DEF GenerateLabeledRows
<1>5. /\ GenerateLabeledRows(file)[i].features = CurrentFeatures(file[i])
      /\ GenerateLabeledRows(file)[i].past = PastFeatures(file, i)
  BY <1>2 DEF GenerateLabeledRows
<1> QED BY <1>2, <1>3, <1>4, <1>5 DEF start

\* A run of 4.2 without a reason to fail read a valid file in strict order.
LEMMA PassingRun ==
  ASSUME NEW file, file = NoFile \/ file \in Seq(SampleRow \cup {Torn}),
         NEW rows,
         rows = IF MayGenerate(ValidateCleanSamples(file))
                  THEN GenerateLabeledRows(ValidateCleanSamples(file).samples) ELSE << >>,
         HardFailReasons(ValidateCleanSamples(file), rows) = {}
  PROVE  /\ MayGenerate(ValidateCleanSamples(file))
         /\ Earliest(file, rows) /\ Forgetful(file, rows)
<1> DEFINE validation == ValidateCleanSamples(file)
<1>1. MayGenerate(validation)
  <2>1. "labeled_sample_count" \notin HardFailReasons(validation, rows)
    OBVIOUS
  <2> HIDE DEF validation
  <2>2. rows # << >>
    BY <2>1 DEF HardFailReasons
  <2> QED BY <2>2 DEF validation
<1>2. validation.valid /\ TimestampQuality(validation.samples).backwards = 0
        /\ TimestampQuality(validation.samples).duplicates = 0
  BY <1>1 DEF MayGenerate
<1>3. file \in Seq(SampleRow \cup {Torn})
  BY <1>2 DEF ValidateCleanSamples
<1>4. AllClean(file) /\ validation.samples = file /\ file # << >>
  BY <1>2, <1>3, ValidFile
<1>5. file \in Seq(SampleRow)
  BY <1>4 DEF AllClean
<1>6. IsStrict(Times(file))
  BY <1>2, <1>4, <1>5, StrictTimes
<1>7. rows = GenerateLabeledRows(file)
  BY <1>1, <1>4
<1> HIDE DEF validation
<1> QED BY <1>1, <1>4, <1>5, <1>6, <1>7, GeneratedIsEarliest, GeneratedForgets DEF validation

-----------------------------------------------------------------------------
(* Phase 4.2 in every behaviour. *)

LabelsInvariant == Written /\ LabelsAreEarliest /\ FeaturesForgetFuture

\* Both properties speak of the last report and of the labels it left.
LEMMA BothAreOfTheReport ==
  /\ LabelsAreEarliest <=> (Passed(Labels) => Earliest(report.clean, labels))
  /\ FeaturesForgetFuture <=> (Passed(Labels) => Forgetful(report.clean, labels))
  BY DEF LabelsAreEarliest, FeaturesForgetFuture, Earliest, Forgetful

\* Only RunLabels changes the labels of 4.2 and their report.
LEMMA LabelsInvariantStays ==
  ASSUME LabelsInvariant, [Next]_vars
  PROVE  LabelsInvariant'
<1> USE DEF LabelsInvariant
<1>1. Written'
  BY WrittenStays
<1> SUFFICES ASSUME Passed(Labels)'
             PROVE  Earliest(report.clean, labels)' /\ Forgetful(report.clean, labels)'
  BY <1>1, BothAreOfTheReport, PTL
<1>2. CASE UNCHANGED <<program, labels, report>>
  <2>1. Passed(Labels) /\ report.clean' = report.clean /\ labels' = labels
    BY <1>2 DEF Passed, Reported
  <2>2. Earliest(report.clean, labels) /\ Forgetful(report.clean, labels)
    BY <2>1, BothAreOfTheReport
  <2> QED BY <2>1, <2>2
<1>3. ASSUME NEW p, p # Labels, NEW written, NEW status, NEW details, Run(p, written, status, details)
      PROVE  FALSE
  BY <1>3 DEF Run, Passed, Reported
<1>4. CASE RunLabels
  <2> DEFINE validation == ValidateCleanSamples(clean)
             rows == IF MayGenerate(validation) THEN GenerateLabeledRows(validation.samples) ELSE << >>
             quality == QualityReport(validation, rows)
  <2>1. /\ labels' = IF MayGenerate(validation) THEN rows ELSE labels
        /\ report'.status = quality.status /\ report'.clean = clean
    BY <1>4 DEF RunLabels, Run
  <2>2. quality.status = "pass"
    BY <2>1 DEF Passed
  <2>3. HardFailReasons(validation, rows) = {}
    BY <2>2 DEF QualityReport
  <2>4. MayGenerate(validation) /\ Earliest(clean, rows) /\ Forgetful(clean, rows)
    <3>1. clean = NoFile \/ clean \in Seq(SampleRow \cup {Torn})
      BY DEF Written
    <3> QED BY <2>3, <3>1, PassingRun
  <2> HIDE DEF validation, rows
  <2>5. labels' = rows /\ report'.clean = clean
    BY <2>1, <2>4
  <2> QED BY <2>4, <2>5
<1>5. CASE RunBookTicker
  BY <1>3, <1>5, NamesDiffer DEF RunBookTicker
<1>6. CASE RunBenchmark
  BY <1>3, <1>6, NamesDiffer DEF RunBenchmark
<1>7. CASE RunProtocol
  BY <1>3, <1>7, NamesDiffer DEF RunProtocol
<1>8. CASE RunCorrected
  BY <1>3, <1>8, NamesDiffer DEF RunCorrected
<1>9. CASE RunStreaming
  BY <1>3, <1>9, NamesDiffer DEF RunStreaming
<1>10. UNCHANGED <<program, labels, report>> \/ RunLabels \/ RunBookTicker \/ RunBenchmark
         \/ RunProtocol \/ RunCorrected \/ RunStreaming
  BY DEF Next, vars, AppendClean, AppendReference, MeasureClock, StepClock
<1> QED BY <1>2, <1>4, <1>5, <1>6, <1>7, <1>8, <1>9, <1>10

\* At first there are no files and no report.
LEMMA LabelsInvariantStarts ==
  ASSUME Init
  PROVE  LabelsInvariant
<1>1. Written
  <2>1. clock \in Int /\ program \in Program /\ clean = NoFile /\ measures = << >>
    BY PipelineAssumption DEF Init
  <2>2. feeds \in [Feed -> {NoFile} \cup Seq(EventRow \cup {Torn})]
    BY DEF Init
  <2>3. measures \in Seq(TrueMeasure)
    BY <2>1
  <2> QED BY <2>1, <2>2, <2>3 DEF Written
<1>2. ~Passed(Labels)
  BY DEF Init, Passed, Reported
<1> QED BY <1>1, <1>2, BothAreOfTheReport DEF LabelsInvariant

\* The inductive invariant of the labels of 4.2.
LEMMA LabelsHold == Spec => []LabelsInvariant
<1>1. Init => LabelsInvariant
  BY LabelsInvariantStarts
<1>2. LabelsInvariant /\ [Next]_vars => LabelsInvariant'
  BY LabelsInvariantStays
<1> QED BY <1>1, <1>2, PTL DEF Spec

\* After a passing run of phase 4.2, whatever the files held and in whatever
\* order, every label on disk is the earliest sample at or after its target and
\* valid exactly when it is not too late, and enough of them are valid
\* (_build_label, select_future_index, run_phase42_pipeline).
THEOREM ResearchLabelsAreEarliest == Spec => []LabelsAreEarliest
<1>1. LabelsInvariant => LabelsAreEarliest
  BY DEF LabelsInvariant
<1> QED BY <1>1, LabelsHold, PTL

\* After a passing run of phase 4.2 no feature of a row depends on a sample
\* written after it (extract_current_features, _add_past_features).
THEOREM ResearchFeaturesForgetFuture == Spec => []FeaturesForgetFuture
<1>1. LabelsInvariant => FeaturesForgetFuture
  BY DEF LabelsInvariant
<1> QED BY <1>1, LabelsHold, PTL

-----------------------------------------------------------------------------
(* The offset of the clock in phase 4.2E. *)

\* The greater and the lesser of two numbers.
LEMMA TwoExtremes ==
  ASSUME NEW a \in Int, NEW b \in Int
  PROVE  /\ Max({a, b}) \in Int /\ Min({a, b}) \in Int /\ Min({a, b}) <= a
<1>1. \E x \in {a, b} : \A y \in {a, b} : x >= y
  OBVIOUS
<1>2. \E x \in {a, b} : \A y \in {a, b} : x <= y
  OBVIOUS
<1>3. Max({a, b}) \in {a, b}
  BY <1>1 DEF Max
<1>4. Min({a, b}) \in {a, b} /\ \A y \in {a, b} : Min({a, b}) <= y
  BY <1>2 DEF Min
<1> QED BY <1>3, <1>4

QuickMeasure == {m \in TrueMeasure : m.rtt <= LowRttMax}

\* No threshold accepts a round trip above LOW_RTT_CLOCK_SAMPLE_MAX_MS.
LEMMA ThresholdIsLow ==
  ASSUME NEW rtts \in Seq(Int), rtts # << >>
  PROVE  LowRttThreshold(rtts) \in Int /\ LowRttThreshold(rtts) <= LowRttMax
<1> DEFINE median == Percentile(rtts, 50)
           far == [k \in DOMAIN rtts |-> Distance(rtts[k], median)]
           mad == Percentile(far, 50)
<1>1. Len(rtts) \in Nat \ {0} /\ DOMAIN rtts = 1 .. Len(rtts) /\ \A k \in 1 .. Len(rtts) : rtts[k] \in Int
  OBVIOUS
<1>2. median \in Int
  BY <1>1, MedianIsThere
<1> HIDE DEF median
<1>3. far \in Seq(Int) /\ far # << >>
  <2>1. \A k \in 1 .. Len(rtts) : Distance(rtts[k], median) \in Int
    BY <1>1, <1>2 DEF Distance
  <2>2. far = [k \in 1 .. Len(rtts) |-> Distance(rtts[k], median)]
    BY <1>1
  <2>3. far \in Seq(Int) /\ Len(far) = Len(rtts)
    BY <1>1, <2>1, <2>2
  <2> QED BY <1>1, <2>3
<1>4. mad \in Int
  <2> HIDE DEF far
  <2>1. PICK k \in 1 .. Len(far) : Percentile(far, 50) = far[k]
    BY <1>3, MedianIsThere
  <2> QED BY <1>3, <2>1
<1> HIDE DEF mad
<1>5. /\ LowRttMax \in Nat /\ RttMargin \in Nat /\ RttFactor \in Nat
  BY ProtocolAssumption
<1>6. RttFactor * mad \in Int
  BY <1>4, <1>5
<1>7. Max({RttMargin, RttFactor * mad}) \in Int
  <2> DEFINE wide == RttFactor * mad
  <2>1. wide \in Int /\ RttMargin \in Int
    BY <1>5, <1>6
  <2> HIDE DEF wide
  <2>2. Max({RttMargin, wide}) \in Int
    BY <2>1, TwoExtremes
  <2> QED BY <2>2 DEF wide
<1> DEFINE x == median + Max({RttMargin, RttFactor * mad})
<1>8. x \in Int
  BY <1>2, <1>7
<1>9. LowRttThreshold(rtts) = Min({LowRttMax, x})
  BY DEF LowRttThreshold, mad, median
<1> HIDE DEF x
<1> QED BY <1>5, <1>8, <1>9, TwoExtremes

\* So the accepted samples have short round trips.
LEMMA AcceptedAreQuick ==
  ASSUME NEW samples \in Seq(TrueMeasure)
  PROVE  Accepted(samples) \in Seq(QuickMeasure)
<1> DEFINE rtts == Field(samples, "rtt")
           at == {k \in DOMAIN samples : samples[k].rtt <= LowRttThreshold(rtts)}
<1>1. /\ Len(samples) \in Nat /\ DOMAIN samples = 1 .. Len(samples)
      /\ \A k \in 1 .. Len(samples) : samples[k] \in TrueMeasure
  OBVIOUS
<1>2. \A k \in 1 .. Len(samples) : samples[k].rtt \in Int
  BY <1>1 DEF TrueMeasure
<1>3. rtts \in Seq(Int) /\ Len(rtts) = Len(samples)
  <2>1. rtts = [k \in 1 .. Len(samples) |-> samples[k].rtt]
    BY <1>1 DEF Field
  <2> HIDE DEF rtts
  <2> QED BY <1>1, <1>2, <2>1
<1> HIDE DEF rtts
<1>4. \A k \in 1 .. Len(samples) : k \in at => samples[k] \in QuickMeasure
  <2> SUFFICES ASSUME NEW k \in 1 .. Len(samples), samples[k].rtt <= LowRttThreshold(rtts)
               PROVE  samples[k] \in QuickMeasure
    OBVIOUS
  <2>1. rtts # << >>
    BY <1>1, <1>3
  <2>2. LowRttThreshold(rtts) \in Int /\ LowRttThreshold(rtts) <= LowRttMax
    BY <1>3, <2>1, ThresholdIsLow
  <2>3. LowRttMax \in Nat
    BY ProtocolAssumption
  <2> QED BY <1>1, <1>2, <2>2, <2>3 DEF QuickMeasure
<1>5. Accepted(samples) = Picked(samples, at)
  BY DEF Accepted, Those, rtts
<1> HIDE DEF at
<1> QED BY <1>1, <1>4, <1>5, PickedFrom

\* The estimated offset is the offset of one of the accepted samples, trimmed or not.
LEMMA OffsetIsThere ==
  ASSUME NEW offsets \in Seq(Int), offsets # << >>
  PROVE  \E k \in 1 .. Len(offsets) : Percentile(TrimOffsets(offsets), 50) = offsets[k]
<1> DEFINE n == Len(offsets)
           p == ByRank(offsets, n)
           sorted == SortedBy(offsets, offsets)
<1>1. n \in Nat \ {0} /\ DOMAIN offsets = 1 .. n /\ \A j \in 1 .. n : offsets[j] \in Int
  OBVIOUS
<1>2. CASE n < 5
  BY <1>2, MedianIsThere DEF TrimOffsets
<1>3. CASE ~(n < 5)
  <2> HIDE DEF n
  <2>1. p \in [1 .. n -> 1 .. n]
    BY <1>1, RankIsInOrder DEF InOrder
  <2>2. sorted = [m \in 1 .. n |-> offsets[p[m]]]
    BY <1>1, SortedByRank
  <2> HIDE DEF p, sorted
  <2>0. \A m \in 1 .. n : offsets[p[m]] \in Int
    BY <1>1, <2>1
  <2>3. sorted \in Seq(Int) /\ Len(sorted) = n
    BY <1>1, <2>0, <2>2
  <2> DEFINE inner == SubSeq(sorted, 2, n - 1)
  <2>4. inner \in Seq(Int) /\ Len(inner) = n - 2 /\ \A m \in 1 .. n - 2 : inner[m] = sorted[m + 1]
    BY <1>1, <1>3, <2>3
  <2>5. TrimOffsets(offsets) = inner
    BY <1>3 DEF TrimOffsets, n, sorted
  <2> HIDE DEF inner
  <2>6. PICK m \in 1 .. n - 2 : Percentile(inner, 50) = inner[m]
    <3>1. inner # << >>
      BY <1>1, <1>3, <2>4
    <3> QED BY <2>4, <3>1, MedianIsThere
  <2>7. m + 1 \in 1 .. n
    BY <1>1
  <2>8. inner[m] = offsets[p[m + 1]] /\ p[m + 1] \in 1 .. n
    BY <2>1, <2>2, <2>4, <2>7
  <2> QED BY <2>5, <2>6, <2>8 DEF n
<1> QED BY <1>2, <1>3

\* What the offset says of a clock that was seen, or lies between two that were.
LEMMA OffsetIsClose ==
  ASSUME NEW samples \in Seq(TrueMeasure), ClockOffsetSummary(samples).driftValid,
         NEW at \in Int,
         LET seen == Range(Field(Accepted(samples), "clock")) IN at \in Min(seen) .. Max(seen)
  PROVE  /\ ClockOffsetSummary(samples).offset \in Int
         /\ ClockOffsetSummary(samples).offset - 2 * at <= LowRttMax + 2 * MaxDrift
<1> DEFINE quick == Accepted(samples)
           offsets == Field(quick, "offset")
           clocks == Field(quick, "clock")
           n == Len(quick)
<1>1. quick \in Seq(QuickMeasure)
  BY AcceptedAreQuick
<1> HIDE DEF quick
<1>2. n \in Nat /\ DOMAIN quick = 1 .. n /\ \A k \in 1 .. n : quick[k] \in QuickMeasure
  BY <1>1
<1>3. \A k \in 1 .. n : /\ quick[k].offset \in Int /\ quick[k].clock \in Int
                        /\ quick[k].offset - 2 * quick[k].clock <= LowRttMax
  <2> TAKE k \in 1 .. n
  <2>1. quick[k] \in TrueMeasure /\ quick[k].rtt <= LowRttMax
    BY <1>2 DEF QuickMeasure
  <2>2. /\ quick[k].offset \in Int /\ quick[k].clock \in Int /\ quick[k].rtt \in Nat
        /\ quick[k].offset - 2 * quick[k].clock \in -quick[k].rtt .. quick[k].rtt
    BY <2>1 DEF TrueMeasure
  <2>3. LowRttMax \in Nat
    BY ProtocolAssumption
  <2> QED BY <2>1, <2>2, <2>3
<1> HIDE DEF n
<1>4. offsets = [k \in 1 .. n |-> quick[k].offset] /\ clocks = [k \in 1 .. n |-> quick[k].clock]
  BY <1>2 DEF Field
<1> HIDE DEF offsets, clocks
<1>5. /\ offsets \in Seq(Int) /\ Len(offsets) = n
      /\ clocks \in Seq(Int) /\ Len(clocks) = n
  BY <1>2, <1>3, <1>4
<1>6. /\ n >= LowRttMin
      /\ offsets # << >> => Max(Range(offsets)) - Min(Range(offsets)) <= 2 * MaxDrift
      /\ ClockOffsetSummary(samples).offset = Percentile(TrimOffsets(offsets), 50)
  BY <1>5 DEF ClockOffsetSummary, offsets, quick
<1>7. n # 0 /\ offsets # << >> /\ clocks # << >>
  <2>1. LowRttMin \in Nat \ {0}
    BY ProtocolAssumption
  <2> QED BY <1>2, <1>5, <1>6, <2>1
<1>8. /\ Max(Range(offsets)) \in Range(offsets) /\ \A x \in Range(offsets) : x <= Max(Range(offsets))
      /\ Min(Range(offsets)) \in Range(offsets) /\ \A x \in Range(offsets) : Min(Range(offsets)) <= x
  BY <1>5, <1>7, ExtremesOfRange
<1>9. Min(Range(clocks)) \in Range(clocks)
  BY <1>5, <1>7, ExtremesOfRange
<1>10. PICK k \in 1 .. n : Min(Range(clocks)) = quick[k].clock
  BY <1>4, <1>9 DEF Range
<1>11. PICK m \in 1 .. n : ClockOffsetSummary(samples).offset = quick[m].offset
  <2>1. PICK m \in 1 .. Len(offsets) : Percentile(TrimOffsets(offsets), 50) = offsets[m]
    BY <1>5, <1>7, OffsetIsThere
  <2> QED BY <1>4, <1>5, <1>6, <2>1
<1>12. quick[k].offset \in Range(offsets) /\ quick[m].offset \in Range(offsets)
  BY <1>4 DEF Range
<1>13. Max(Range(offsets)) \in Int /\ Min(Range(offsets)) \in Int
  <2>1. Range(offsets) \subseteq Int
    BY <1>3, <1>4 DEF Range
  <2> QED BY <1>8, <2>1
<1>14. quick[k].clock <= at
  <2>1. at \in Min(Range(clocks)) .. Max(Range(clocks))
    BY DEF clocks, quick
  <2>2. quick[k].clock <= at
    BY <1>10, <2>1
  <2> QED BY <2>2
<1>15. quick[m].offset - quick[k].offset <= 2 * MaxDrift
  <2>1. quick[m].offset <= Max(Range(offsets)) /\ Min(Range(offsets)) <= quick[k].offset
    BY <1>8, <1>12
  <2>2. Max(Range(offsets)) - Min(Range(offsets)) <= 2 * MaxDrift /\ MaxDrift \in Nat
    BY <1>6, <1>7, ProtocolAssumption
  <2> QED BY <1>3, <1>13, <2>1, <2>2
<1>16. LowRttMax \in Nat /\ MaxDrift \in Nat
  BY ProtocolAssumption
<1>17. /\ quick[m].offset \in Int /\ quick[k].offset \in Int /\ quick[k].clock \in Int
       /\ quick[k].offset - 2 * quick[k].clock <= LowRttMax
  BY <1>3
<1>18. quick[m].offset - 2 * at <= LowRttMax + 2 * MaxDrift
  <2>1. ASSUME NEW a \in Int, NEW b \in Int, NEW c \in Int, NEW rtt \in Int, NEW drift \in Int,
               c <= at, b - a <= 2 * drift, a - 2 * c <= rtt
        PROVE  b - 2 * at <= rtt + 2 * drift
    BY <2>1
  <2>2. LowRttMax \in Int /\ MaxDrift \in Int
    BY <1>16
  <2> QED BY <1>14, <1>15, <1>17, <2>1, <2>2
<1> QED BY <1>11, <1>17, <1>18

\* The lag an exchange time label carries is that of its sample.
LEMMA LagOfLabel ==
  ASSUME NEW sample, NEW references, NEW schema
  PROVE  BuildExchangeTimeLabel(sample, references, schema).featureLag
           = ReceiveLag(sample.wall, sample.exchange)
  BY DEF BuildExchangeTimeLabel, Judged, Matched, Unmatched

\* A corrected label that is valid has a corrected lag within the budget.
LEMMA CorrectedLabelValid ==
  ASSUME NEW sample \in SampleRow, NEW references, NEW schema, NEW budget \in Nat, NEW summary,
         summary.offset \in Int,
         BuildCorrectedHybridLabel(BuildExchangeTimeLabel(sample, references, schema), budget, summary).valid
  PROVE  /\ summary.driftValid
         /\ sample.exchange \in Int
         /\ 2 * (sample.wall - sample.exchange) - summary.offset <= 2 * budget
<1> DEFINE label == BuildExchangeTimeLabel(sample, references, schema)
           lag == CorrectedLag(label.featureLag, summary.offset)
           reason == IF ~label.valid THEN label.reason
                     ELSE IF ~summary.driftValid THEN "CLOCK_OFFSET_DRIFT_INVALID"
                     ELSE IF lag = NoValue THEN "CORRECTED_FEATURE_RECEIVE_LAG_MISSING"
                     ELSE LagReason(label, lag, 2 * AllowedSkew, 2 * budget,
                                    "CORRECTED_LAG_CLOCK_SANITY_FAILURE",
                                    "CORRECTED_FEATURE_RECEIVE_LAG_TOO_HIGH")
<1>1. label.featureLag = ReceiveLag(sample.wall, sample.exchange)
  BY LagOfLabel
<1> HIDE DEF label
<1>2. BuildCorrectedHybridLabel(label, budget, summary).valid = (label.valid /\ reason = NoReason)
  BY DEF BuildCorrectedHybridLabel
<1>3. label.valid /\ reason = NoReason
  BY <1>2 DEF label
<1>4. summary.driftValid /\ lag # NoValue
  BY <1>3 DEF NoReason
<1>5. LagReason(label, lag, 2 * AllowedSkew, 2 * budget, "CORRECTED_LAG_CLOCK_SANITY_FAILURE",
                "CORRECTED_FEATURE_RECEIVE_LAG_TOO_HIGH") = "none"
  BY <1>3, <1>4 DEF NoReason
<1>6. ~(lag > 2 * budget)
  <2> HIDE DEF lag
  <2> QED BY <1>5 DEF LagReason
<1>7. sample.exchange # NoValue /\ lag = 2 * (sample.wall - sample.exchange) - summary.offset
  BY <1>1, <1>4 DEF CorrectedLag, ReceiveLag
<1>8. sample.exchange \in Int /\ sample.wall \in Int
  BY <1>7 DEF SampleRow
<1> HIDE DEF lag
<1>9. 2 * (sample.wall - sample.exchange) - summary.offset \in Int
  BY <1>8
<1> QED BY <1>4, <1>6, <1>7, <1>8, <1>9

\* What CorrectedLagIsTrue says of the rows of a run.
TrueLags(file, samples, rows) ==
  \A i \in DOMAIN rows, s \in Source, b \in Budget :
    LET sample == file[i]
        seen == Range(Field(Accepted(samples), "clock"))
        at == sample.wall - sample.ts
    IN  (rows[i][s][b].valid /\ at \in Min(seen) .. Max(seen)) =>
          2 * (sample.ts - sample.exchange) <= 2 * b + LowRttMax + 2 * MaxDrift

\* The corrected rows of a file keep to their budgets.
LEMMA CorrectedRowsAreTrue ==
  ASSUME NEW file \in Seq(SampleRow), NEW samples \in Seq(TrueMeasure), NEW events
  PROVE  TrueLags(file, samples,
           GenerateCorrectedRows(GenerateTimeProtocolRows(file, events), ClockOffsetSummary(samples)))
<1> DEFINE summary == ClockOffsetSummary(samples)
           rows == GenerateTimeProtocolRows(file, events)
           corrected == GenerateCorrectedRows(rows, summary)
<1>1. DOMAIN rows = DOMAIN file
  BY DEF GenerateTimeProtocolRows
<1>2. \A i \in DOMAIN file, s \in Source :
        \E references, schema : rows[i][s].exchange = BuildExchangeTimeLabel(file[i], references, schema)
  BY DEF GenerateTimeProtocolRows
<1> HIDE DEF rows
<1>3. DOMAIN corrected = DOMAIN file
  BY <1>1 DEF GenerateCorrectedRows
<1>4. \A i \in DOMAIN file, s \in Source, b \in Budget :
        corrected[i][s][b] = BuildCorrectedHybridLabel(rows[i][s].exchange, b, summary)
  BY <1>1 DEF GenerateCorrectedRows
<1> HIDE DEF corrected
<1> SUFFICES ASSUME NEW i \in DOMAIN file, NEW s \in Source, NEW b \in Budget,
                    corrected[i][s][b].valid,
                    LET seen == Range(Field(Accepted(samples), "clock"))
                    IN  file[i].wall - file[i].ts \in Min(seen) .. Max(seen)
             PROVE  2 * (file[i].ts - file[i].exchange) <= 2 * b + LowRttMax + 2 * MaxDrift
  BY <1>3 DEF TrueLags, corrected, rows
<1> DEFINE sample == file[i]
           at == sample.wall - sample.ts
<1>5. PICK references, schema : rows[i][s].exchange = BuildExchangeTimeLabel(sample, references, schema)
  BY <1>2
<1>6. sample \in SampleRow /\ b \in Nat /\ LowRttMax \in Nat /\ MaxDrift \in Nat
  BY ProtocolAssumption
<1>7. sample.ts \in Int /\ sample.wall \in Int
  BY <1>6 DEF SampleRow
<1> HIDE DEF sample
<1>8. BuildCorrectedHybridLabel(BuildExchangeTimeLabel(sample, references, schema), b, summary).valid
  BY <1>4, <1>5
<1>9. summary.driftValid
  <2> DEFINE label == BuildExchangeTimeLabel(sample, references, schema)
  <2> HIDE DEF label, summary
  <2>1. BuildCorrectedHybridLabel(label, b, summary).valid
    BY <1>8 DEF label
  <2> QED BY <2>1 DEF BuildCorrectedHybridLabel, NoReason
<1>10. at \in Int
  BY <1>7
<1>11. summary.offset \in Int /\ summary.offset - 2 * at <= LowRttMax + 2 * MaxDrift
  <2>1. LET seen == Range(Field(Accepted(samples), "clock")) IN at \in Min(seen) .. Max(seen)
    BY DEF sample
  <2> HIDE DEF at
  <2> QED BY <1>9, <1>10, <2>1, OffsetIsClose
<1> HIDE DEF summary
<1>12. sample.exchange \in Int /\ 2 * (sample.wall - sample.exchange) - summary.offset <= 2 * b
  BY <1>6, <1>8, <1>11, CorrectedLabelValid
<1>13. ASSUME NEW ts \in Int, NEW wall \in Int, NEW exchange \in Int, NEW offset \in Int,
              NEW rtt \in Int, NEW drift \in Int, NEW budget \in Int,
              2 * (wall - exchange) - offset <= 2 * budget,
              offset - 2 * (wall - ts) <= rtt + 2 * drift
       PROVE  2 * (ts - exchange) <= 2 * budget + rtt + 2 * drift
  BY <1>13
<1>14. 2 * (sample.ts - sample.exchange) <= 2 * b + LowRttMax + 2 * MaxDrift
  <2>1. b \in Int /\ LowRttMax \in Int /\ MaxDrift \in Int
    BY <1>6
  <2>2. summary.offset - 2 * (sample.wall - sample.ts) <= LowRttMax + 2 * MaxDrift
    BY <1>11
  <2>3. summary.offset \in Int
    BY <1>11
  <2> HIDE DEF at
  <2> QED BY <1>7, <1>12, <1>13, <2>1, <2>2, <2>3
<1> QED BY <1>14 DEF sample

ClockInvariant == Written /\ CorrectedLagIsTrue

\* CorrectedLagIsTrue, of the report and the labels.
LEMMA LagsAreOfTheReport ==
  CorrectedLagIsTrue <=> (Reported(Corrected) => TrueLags(report.clean, report.measures, labels))
  BY DEF CorrectedLagIsTrue, TrueLags

\* Only RunCorrected changes the labels of 4.2E and their report.
LEMMA ClockInvariantStays ==
  ASSUME ClockInvariant, [Next]_vars
  PROVE  ClockInvariant'
<1> USE DEF ClockInvariant
<1>1. Written'
  BY WrittenStays
<1> SUFFICES ASSUME Reported(Corrected)'
             PROVE  TrueLags(report.clean, report.measures, labels)'
  BY <1>1, LagsAreOfTheReport, PTL
<1>2. CASE UNCHANGED <<program, labels, report>>
  <2>1. Reported(Corrected)
    BY <1>2 DEF Reported
  <2>2. TrueLags(report.clean, report.measures, labels)
    BY <2>1, LagsAreOfTheReport
  <2>3. report.clean' = report.clean /\ report.measures' = report.measures /\ labels' = labels
    BY <1>2
  <2> QED BY <2>2, <2>3
<1>3. ASSUME NEW p, p # Corrected, NEW written, NEW status, NEW details, Run(p, written, status, details)
      PROVE  FALSE
  BY <1>3 DEF Run, Reported
<1>4. CASE RunCorrected
  <2> DEFINE samples == ValidSamples
             events == Events(Sources(samples))
             rows == ProtocolRows(samples, events)
             summary == ClockOffsetSummary(measures)
  <2>1. labels' = GenerateCorrectedRows(rows, summary) /\ report'.clean = clean /\ report'.measures = measures
    BY <1>4 DEF RunCorrected, Run
  <2>2. CASE samples = << >>
    <3>1. labels' = << >>
      BY <2>1, <2>2 DEF ProtocolRows, GenerateCorrectedRows
    <3> QED BY <2>1, <3>1 DEF TrueLags
  <2>3. CASE samples # << >>
    <3>1. ValidateCleanSamples(clean).valid /\ samples = ValidateCleanSamples(clean).samples
      BY <2>3 DEF ValidSamples
    <3>2. clean \in Seq(SampleRow \cup {Torn})
      BY <3>1 DEF Written, ValidateCleanSamples
    <3>3. samples = clean /\ clean \in Seq(SampleRow)
      BY <3>1, <3>2, ValidFile DEF AllClean
    <3>4. rows = GenerateTimeProtocolRows(clean, events)
      BY <2>3, <3>3 DEF ProtocolRows
    <3>5. measures \in Seq(TrueMeasure)
      BY DEF Written
    <3> HIDE DEF events, rows, summary
    <3>6. TrueLags(clean, measures, GenerateCorrectedRows(rows, summary))
      BY <3>3, <3>4, <3>5, CorrectedRowsAreTrue DEF summary
    <3> QED BY <2>1, <3>6
  <2> QED BY <2>2, <2>3
<1>5. CASE RunLabels
  BY <1>3, <1>5, NamesDiffer DEF RunLabels
<1>6. CASE RunBookTicker
  BY <1>3, <1>6, NamesDiffer DEF RunBookTicker
<1>7. CASE RunBenchmark
  BY <1>3, <1>7, NamesDiffer DEF RunBenchmark
<1>8. CASE RunProtocol
  BY <1>3, <1>8, NamesDiffer DEF RunProtocol
<1>9. CASE RunStreaming
  BY <1>3, <1>9, NamesDiffer DEF RunStreaming
<1>10. UNCHANGED <<program, labels, report>> \/ RunLabels \/ RunBookTicker \/ RunBenchmark
         \/ RunProtocol \/ RunCorrected \/ RunStreaming
  BY DEF Next, vars, AppendClean, AppendReference, MeasureClock, StepClock
<1> QED BY <1>2, <1>4, <1>5, <1>6, <1>7, <1>8, <1>9, <1>10

\* In a run of phase 4.2E a corrected hybrid label that is valid belongs to a
\* sample that was received within its budget, up to half the longest round trip
\* an accepted server time sample may have and the drift that is allowed, however
\* the clock was stepped between the clocks those samples saw
\* (compute_clock_offset_summary, build_corrected_hybrid_label).
THEOREM ResearchCorrectedLagIsTrue == Spec => []CorrectedLagIsTrue
<1>1. Init => ClockInvariant
  <2>1. Init => Written
    BY LabelsInvariantStarts DEF LabelsInvariant
  <2>2. Init => ~Reported(Corrected)
    BY DEF Init, Reported
  <2> QED BY <2>1, <2>2, LagsAreOfTheReport DEF ClockInvariant
<1>2. ClockInvariant /\ [Next]_vars => ClockInvariant'
  BY ClockInvariantStays
<1>3. ClockInvariant => CorrectedLagIsTrue
  BY DEF ClockInvariant
<1> QED BY <1>1, <1>2, <1>3, PTL DEF Spec

-----------------------------------------------------------------------------
(* What a search of the references finds. *)

\* What is named is picked.
LEMMA PickedWhole ==
  ASSUME NEW S, NEW s \in Seq(S), NEW at, NEW i \in 1 .. Len(s), i \in at
  PROVE  \E m \in 1 .. Len(Picked(s, at)) : Picked(s, at)[m] = s[i]
<1>1. Len(s) \in Nat /\ \A k \in 1 .. Len(s) : s[k] \in S
  OBVIOUS
<1>2. PICK f : f = [k \in 0 .. Len(s) |-> Take(s, at, f, k)] /\ Picked(s, at) = f[Len(s)]
  BY <1>1, PickedIsTaken
<1> DEFINE good(n) == f[n] \in Seq(S) /\ (i <= n => \E m \in 1 .. Len(f[n]) : f[n][m] = s[i])
           bad == {n \in Nat : n <= Len(s) /\ ~good(n)}
<1>3. bad = {}
  <2> SUFFICES ASSUME bad # {} PROVE FALSE
    OBVIOUS
  <2>1. PICK n \in bad : \A j \in bad : n <= j
    <3>1. bad \in SUBSET Nat
      OBVIOUS
    <3> HIDE DEF bad
    <3> QED BY <3>1, LeastOf
  <2>2. n \in 0 .. Len(s) /\ ~good(n) /\ f[n] = Take(s, at, f, n)
    <3>1. n \in 0 .. Len(s) /\ ~good(n)
      BY <2>1
    <3> HIDE DEF good
    <3> QED BY <1>2, <3>1
  <2>3. n # 0
    BY <2>2 DEF Take
  <2>4. n - 1 \in Nat /\ n - 1 <= Len(s) /\ n - 1 \notin bad
    <3>1. n - 1 \in Nat /\ n - 1 < n
      BY <2>2, <2>3
    <3> HIDE DEF bad, good
    <3> QED BY <2>1, <2>2, <3>1
  <2>5. good(n - 1)
    <3> HIDE DEF good
    <3> QED BY <2>4
  <2>6. s[n] \in S
    BY <1>1, <2>2, <2>3
  <2>7. CASE n \notin at
    <3>1. f[n] = f[n - 1]
      BY <2>2, <2>3, <2>7 DEF Take
    <3>2. i <= n => i <= n - 1
      BY <2>2, <2>7
    <3> QED BY <2>2, <2>5, <3>1, <3>2
  <2>8. CASE n \in at
    <3> DEFINE t == f[n - 1]
    <3>1. f[n] = Append(t, s[n])
      BY <2>2, <2>3, <2>8 DEF Take
    <3>2. t \in Seq(S)
      BY <2>5
    <3>3. /\ f[n] \in Seq(S) /\ Len(f[n]) = Len(t) + 1 /\ Len(t) \in Nat
          /\ \A m \in 1 .. Len(t) : f[n][m] = t[m]
          /\ f[n][Len(t) + 1] = s[n]
      <4> HIDE DEF t
      <4> QED BY <2>6, <3>1, <3>2
    <3>4. i <= n => \E m \in 1 .. Len(f[n]) : f[n][m] = s[i]
      <4>1. CASE i = n
        <5>1. Len(t) + 1 \in 1 .. Len(f[n])
          BY <3>3
        <5> QED BY <3>3, <4>1, <5>1
      <4>2. CASE i <= n - 1
        <5>1. PICK m \in 1 .. Len(t) : t[m] = s[i]
          BY <2>5, <4>2
        <5>2. m \in 1 .. Len(f[n]) /\ f[n][m] = s[i]
          BY <3>3, <5>1
        <5> QED BY <5>2
      <4> QED BY <2>2, <4>1, <4>2
    <3> QED BY <2>2, <3>3, <3>4
  <2> QED BY <2>7, <2>8
<1>4. good(Len(s))
  <2>1. Len(s) \notin bad
    BY <1>3
  <2> HIDE DEF good
  <2> QED BY <1>1, <2>1
<1>5. \E m \in 1 .. Len(f[Len(s)]) : f[Len(s)][m] = s[i]
  <2>1. i <= Len(s)
    OBVIOUS
  <2> QED BY <1>4, <2>1
<1> HIDE DEF good, bad
<1> QED BY <1>2, <1>5

\* The list R holds the rows of E, in the order of their keys f.
Lists(R, n, E, f) ==
  /\ n \in Nat /\ DOMAIN R = 1 .. n
  /\ \A m \in 1 .. n : R[m] \in E
  /\ \A e \in E : \E m \in 1 .. n : R[m] = e
  /\ \A l, m \in 1 .. n : l <= m => f[R[l]] <= f[R[m]]

\* Sorting a list that holds the rows of E.
LEMMA SortedLists ==
  ASSUME NEW E, NEW f, \A e \in E : f[e] \in Int, NEW s \in Seq(E),
         \A e \in E : \E m \in 1 .. Len(s) : s[m] = e,
         NEW keys, \A j \in 1 .. Len(s) : keys[j] = f[s[j]]
  PROVE  Lists(SortedBy(s, keys), Len(s), E, f)
<1> DEFINE n == Len(s)
           p == ByRank(keys, n)
           R == SortedBy(s, keys)
<1>1. n \in Nat /\ DOMAIN s = 1 .. n /\ \A j \in 1 .. n : s[j] \in E /\ keys[j] \in Int
  OBVIOUS
<1>2. \A e \in E : \E m \in 1 .. n : s[m] = e
  OBVIOUS
<1>3. \A j \in 1 .. n : keys[j] = f[s[j]]
  OBVIOUS
<1> HIDE DEF n
<1>4. InOrder(keys, n, p)
  BY <1>1, RankIsInOrder
<1>5. R = [m \in 1 .. n |-> s[p[m]]]
  BY <1>1, SortedByRank
<1> HIDE DEF p, R
<1>6. DOMAIN R = 1 .. n /\ \A m \in 1 .. n : p[m] \in 1 .. n /\ R[m] = s[p[m]]
  BY <1>4, <1>5 DEF InOrder
<1>7. \A m \in 1 .. n : R[m] \in E
  BY <1>1, <1>6
<1>8. \A e \in E : \E m \in 1 .. n : R[m] = e
  <2> TAKE e \in E
  <2>1. PICK j \in 1 .. n : s[j] = e
    BY <1>2
  <2>2. PICK m \in 1 .. n : p[m] = j
    BY <1>4 DEF InOrder
  <2> QED BY <1>6, <2>1, <2>2
<1>9. \A l, m \in 1 .. n : l <= m => f[R[l]] <= f[R[m]]
  <2> TAKE l, m \in 1 .. n
  <2>1. f[R[l]] = keys[p[l]] /\ f[R[m]] = keys[p[m]]
    BY <1>3, <1>6
  <2> QED BY <1>4, <2>1 DEF InOrder
<1> QED BY <1>1, <1>6, <1>7, <1>8, <1>9 DEF Lists, R, n

\* The label for target x points at a row of E with the least key f that is not
\* below x, and is valid when that key is not too late; or there is no such row.
Points(label, x, E, f) ==
  /\ label.target = x
  /\ \/ /\ \A e \in E : f[e] < x
        /\ label.index = NoIndex /\ label.valid = FALSE
     \/ \E e \in E :
          /\ f[e] >= x
          /\ \A d \in E : f[d] >= x => f[e] <= f[d]
          /\ label.index # NoIndex
          /\ label.future = f[e] /\ label.local = e.ts /\ label.price = e.price
          /\ label.valid <=> f[e] - x <= MaxReferenceGap

\* A label made from position k of the list R, whose keys are `times`.
MadeFrom(label, x, R, times, k) ==
  /\ label.target = x
  /\ IF k <= Len(times)
       THEN /\ label.index = k /\ label.future = times[k]
            /\ label.local = R[k].ts /\ label.price = R[k].price
            /\ label.valid <=> times[k] - x <= MaxReferenceGap
       ELSE label.index = NoIndex /\ label.valid = FALSE

\* A label made where a search of an ordered list ends points at the earliest.
LEMMA SearchPoints ==
  ASSUME NEW E, NEW f, \A e \in E : f[e] \in Int, NEW R, NEW n, Lists(R, n, E, f),
         NEW times, times = [m \in 1 .. n |-> f[R[m]]], NEW x \in Int, NEW label,
         MadeFrom(label, x, R, times, BisectLeft(times, x, 1))
  PROVE  Points(label, x, E, f)
<1> DEFINE k == BisectLeft(times, x, 1)
<1>1. n \in Nat /\ \A m \in 1 .. n : R[m] \in E /\ times[m] = f[R[m]] /\ times[m] \in Int
  BY DEF Lists
<1>2. times \in Seq(Int) /\ Len(times) = n
  BY <1>1
<1>3. IsOrdered(times, Len(times))
  BY <1>1, <1>2 DEF IsOrdered, Lists
<1>4. k \in 1 .. n + 1 /\ (\A j \in 1 .. k - 1 : times[j] < x) /\ \A j \in k .. n : times[j] >= x
  <2>1. 1 \in 1 .. Len(times) + 1
    BY <1>1, <1>2
  <2> QED BY <1>2, <1>3, <2>1, BisectLeftFinds
<1>5. MadeFrom(label, x, R, times, k)
  OBVIOUS
<1> HIDE DEF k
<1>6. CASE k <= n
  <2>1. k \in 1 .. n /\ k \in k .. n
    BY <1>1, <1>4, <1>6
  <2>2. R[k] \in E /\ f[R[k]] = times[k] /\ times[k] >= x
    BY <1>1, <1>4, <2>1
  <2>3. \A d \in E : f[d] >= x => f[R[k]] <= f[d]
    <3> SUFFICES ASSUME NEW d \in E, f[d] >= x PROVE f[R[k]] <= f[d]
      OBVIOUS
    <3>1. PICK m \in 1 .. n : R[m] = d
      BY DEF Lists
    <3>2. times[m] = f[d] /\ times[m] \in Int
      BY <1>1, <3>1
    <3>3. ~(m \in 1 .. k - 1)
      BY <1>4, <3>2
    <3>4. k <= m
      BY <1>4, <3>3
    <3> QED BY <2>1, <3>1, <3>4 DEF Lists
  <2>4. /\ label.index = k /\ label.future = times[k] /\ label.local = R[k].ts
        /\ label.price = R[k].price /\ label.target = x
        /\ label.valid <=> times[k] - x <= MaxReferenceGap
    BY <1>2, <1>5, <1>6 DEF MadeFrom
  <2>5. k # NoIndex
    BY <2>1 DEF NoIndex
  <2> QED BY <2>2, <2>3, <2>4, <2>5 DEF Points
<1>7. CASE ~(k <= n)
  <2>1. \A e \in E : f[e] < x
    <3> TAKE e \in E
    <3>1. PICK m \in 1 .. n : R[m] = e
      BY DEF Lists
    <3>2. m \in 1 .. k - 1
      BY <1>1, <1>4, <1>7
    <3> QED BY <1>1, <1>4, <3>1, <3>2
  <2> QED BY <1>2, <1>5, <1>7, <2>1 DEF MadeFrom, Points
<1> QED BY <1>6, <1>7

\* The minimum is the element that is not above any other.
LEMMA MinIs ==
  ASSUME NEW S, S \subseteq Int, NEW m \in S, \A y \in S : m <= y
  PROVE  Min(S) = m
<1>1. \A z \in S : (\A y \in S : z <= y) => z = m
  OBVIOUS
<1> QED BY <1>1 DEF Min

\* What PointsAtEarliest says, of the events at the positions in `dated` and their keys.
PointsAtLeast(label, events, dated, keys) ==
  LET future == {k \in dated : keys[k] >= label.target}
      earliest == Min({keys[k] : k \in future})
  IN  /\ label.index = NoIndex <=> future = {}
      /\ label.index # NoIndex =>
           /\ label.future = earliest
           /\ \E k \in future : /\ keys[k] = earliest
                                /\ label.local = events[k].ts /\ label.price = events[k].price
      /\ label.valid <=> future # {} /\ earliest <= label.target + MaxReferenceGap

\* A label that points at one of the rows in `dated` points at an earliest position.
LEMMA PointsByPosition ==
  ASSUME NEW events, NEW dated, NEW keys, \A k \in dated : keys[k] \in Int,
         NEW E, E = {events[k] : k \in dated},
         NEW f, \A k \in dated : f[events[k]] = keys[k],
         NEW x \in Int, NEW label, Points(label, x, E, f)
  PROVE  PointsAtLeast(label, events, dated, keys)
<1> DEFINE future == {k \in dated : keys[k] >= x}
           S == {keys[k] : k \in future}
           earliest == Min(S)
<1>1. label.target = x
  BY DEF Points
<1>2. CASE \A e \in E : f[e] < x
  <2>1. future = {}
    <3> SUFFICES ASSUME NEW k \in future PROVE FALSE
      OBVIOUS
    <3>1. k \in dated /\ keys[k] >= x /\ keys[k] \in Int /\ f[events[k]] = keys[k]
      OBVIOUS
    <3>2. f[events[k]] < x
      BY <1>2, <3>1
    <3> QED BY <3>1, <3>2
  <2>2. \A e \in E : ~(f[e] >= x)
    <3> TAKE e \in E
    <3>1. PICK k \in dated : e = events[k]
      OBVIOUS
    <3>2. f[e] \in Int /\ f[e] < x
      BY <1>2, <3>1
    <3> QED BY <3>2
  <2>3. label.index = NoIndex /\ label.valid = FALSE
    BY <2>2 DEF Points
  <2> QED BY <1>1, <2>1, <2>3 DEF PointsAtLeast
<1>3. CASE ~\A e \in E : f[e] < x
  <2>1. PICK e \in E :
          /\ f[e] >= x
          /\ \A d \in E : f[d] >= x => f[e] <= f[d]
          /\ label.index # NoIndex
          /\ label.future = f[e] /\ label.local = e.ts /\ label.price = e.price
          /\ label.valid <=> f[e] - x <= MaxReferenceGap
    BY <1>3 DEF Points
  <2>2. PICK k \in dated : e = events[k]
    BY <2>1
  <2>3. k \in future /\ keys[k] \in S /\ keys[k] = f[e] /\ keys[k] \in Int
    BY <2>1, <2>2
  <2>4. S \subseteq Int
    OBVIOUS
  <2>5. \A y \in S : keys[k] <= y
    <3> TAKE y \in S
    <3>1. PICK j \in future : y = keys[j]
      OBVIOUS
    <3>2. j \in dated /\ f[events[j]] = y /\ y >= x /\ events[j] \in E
      BY <3>1
    <3> QED BY <2>1, <2>3, <3>2
  <2>6. earliest = keys[k]
    <3> HIDE DEF S
    <3> QED BY <2>3, <2>4, <2>5, MinIs
  <2>7. keys[k] - x <= MaxReferenceGap <=> keys[k] <= x + MaxReferenceGap
    BY <2>3, ReferenceAssumption
  <2>8. /\ label.future = earliest /\ keys[k] = earliest
        /\ label.local = events[k].ts /\ label.price = events[k].price
        /\ label.valid <=> earliest <= x + MaxReferenceGap
    <3> HIDE DEF earliest
    <3> QED BY <2>1, <2>2, <2>3, <2>6, <2>7
  <2> HIDE DEF earliest
  <2>9. future # {}
    BY <2>3
  <2>10. \E j \in future : /\ keys[j] = earliest
                           /\ label.local = events[j].ts /\ label.price = events[j].price
    BY <2>3, <2>8
  <2> HIDE DEF future
  <2>11. /\ label.index = NoIndex <=> future = {}
         /\ label.index # NoIndex =>
              /\ label.future = earliest
              /\ \E j \in future : /\ keys[j] = earliest
                                   /\ label.local = events[j].ts /\ label.price = events[j].price
         /\ label.valid <=> future # {} /\ earliest <= x + MaxReferenceGap
    BY <2>1, <2>8, <2>9, <2>10
  <2> QED BY <1>1, <2>11 DEF PointsAtLeast, future, earliest
<1> QED BY <1>2, <1>3

\* The rows the programs take for references.
SeenRow == {e \in EventRow : e.price > 0}

LocalOf(events) == [e \in Range(events) |-> e.ts]

Dated(events) == {events[k] : k \in {j \in DOMAIN events : HasExchangeTime(events[j])}}

ExchangeOf(events) == [e \in Dated(events) |-> ExchangeTime(e)]

\* A reference has a receive time, and an exchange time when it says so.
LEMMA SeenTimes ==
  ASSUME NEW e \in SeenRow
  PROVE  /\ e.ts \in Int /\ e.ts # NoValue /\ LocalTime(e) = e.ts
         /\ HasExchangeTime(e) => ExchangeTime(e) \in Int
<1>1. e.ts \in Int /\ e.trade \in Int \cup {NoValue} /\ e.event \in Int \cup {NoValue}
  BY DEF SeenRow, EventRow, ReferenceRow
<1> QED BY <1>1, HorizonAssumption DEF LocalTime, HasExchangeTime, ExchangeTime

\* From rows to the positions of the property: by receive time,
LEMMA LocalPoints ==
  ASSUME NEW events \in Seq(SeenRow), NEW x \in Int, NEW label,
         Points(label, x, Range(events), LocalOf(events))
  PROVE  PointsAtEarliest(label, events, LocalTime)
<1> DEFINE keys == [k \in DOMAIN events |-> events[k].ts]
<1>1. \A k \in DOMAIN events : /\ events[k] \in SeenRow /\ keys[k] \in Int /\ keys[k] # NoValue
                               /\ LocalTime(events[k]) = keys[k] /\ LocalOf(events)[events[k]] = keys[k]
  <2> TAKE k \in DOMAIN events
  <2>1. events[k] \in SeenRow /\ events[k] \in Range(events)
    BY DEF Range
  <2> QED BY <2>1, SeenTimes DEF LocalOf
<1>2. Range(events) = {events[k] : k \in DOMAIN events}
  BY DEF Range
<1> HIDE DEF keys
<1>3. PointsAtLeast(label, events, DOMAIN events, keys)
  <2> DEFINE E == Range(events)
             f == LocalOf(events)
  <2>1. \A k \in DOMAIN events : keys[k] \in Int /\ f[events[k]] = keys[k]
    BY <1>1
  <2>2. E = {events[k] : k \in DOMAIN events} /\ Points(label, x, E, f)
    BY <1>2
  <2> HIDE DEF E, f
  <2> QED BY <2>1, <2>2, PointsByPosition
<1>4. \A k \in DOMAIN events : /\ LocalTime(events[k]) = keys[k] /\ LocalTime(events[k]) # NoValue
  BY <1>1
<1>5. {k \in DOMAIN events : LocalTime(events[k]) # NoValue /\ LocalTime(events[k]) >= label.target}
        = {k \in DOMAIN events : keys[k] >= label.target}
  BY <1>4
<1>6. {LocalTime(events[k]) : k \in {j \in DOMAIN events : keys[j] >= label.target}}
        = {keys[k] : k \in {j \in DOMAIN events : keys[j] >= label.target}}
  BY <1>4
<1> QED BY <1>3, <1>4, <1>5, <1>6 DEF PointsAtEarliest, PointsAtLeast

\* and by exchange time.
LEMMA ExchangePoints ==
  ASSUME NEW events \in Seq(SeenRow), NEW x \in Int, NEW label,
         Points(label, x, Dated(events), ExchangeOf(events))
  PROVE  PointsAtEarliest(label, events, ExchangeTime)
<1> DEFINE dated == {j \in DOMAIN events : HasExchangeTime(events[j])}
           keys == [k \in DOMAIN events |-> ExchangeTime(events[k])]
<1>1. \A k \in dated : /\ keys[k] \in Int /\ ExchangeOf(events)[events[k]] = keys[k]
  <2> TAKE k \in dated
  <2>1. events[k] \in SeenRow /\ events[k] \in Dated(events) /\ HasExchangeTime(events[k])
    BY DEF Dated
  <2> QED BY <2>1, SeenTimes DEF ExchangeOf
<1>2. \A k \in DOMAIN events : ExchangeTime(events[k]) = keys[k] /\ (k \in dated <=> keys[k] # NoValue)
  BY DEF HasExchangeTime
<1>3. Dated(events) = {events[k] : k \in dated} /\ dated \subseteq DOMAIN events
  BY DEF Dated
<1> HIDE DEF keys, dated
<1>4. PointsAtLeast(label, events, dated, keys)
  <2> DEFINE E == Dated(events)
             f == ExchangeOf(events)
  <2>1. \A k \in dated : keys[k] \in Int /\ f[events[k]] = keys[k]
    BY <1>1
  <2>2. E = {events[k] : k \in dated} /\ Points(label, x, E, f)
    BY <1>3
  <2> HIDE DEF E, f
  <2> QED BY <2>1, <2>2, PointsByPosition
<1>5. {k \in DOMAIN events : ExchangeTime(events[k]) # NoValue /\ ExchangeTime(events[k]) >= label.target}
        = {k \in dated : keys[k] >= label.target}
  BY <1>2, <1>3
<1>6. {ExchangeTime(events[k]) : k \in {j \in dated : keys[j] >= label.target}}
        = {keys[k] : k \in {j \in dated : keys[j] >= label.target}}
  BY <1>2, <1>3
<1>7. \A k \in dated : ExchangeTime(events[k]) = keys[k]
  BY <1>2, <1>3
<1> QED BY <1>4, <1>5, <1>6, <1>7 DEF PointsAtEarliest, PointsAtLeast

-----------------------------------------------------------------------------
(* The labels that are made from references. *)

\* A sample and references whose prices need no second look.
Priced(sample, R) ==
  /\ sample.ts \in Int /\ SampleMid(sample) > 0 /\ SampleMid(sample) \in Int
  /\ \A m \in DOMAIN R : R[m].price > 0 /\ R[m].price \in Int /\ R[m].ts \in Int

\* A label as it stands before it is judged, for position k of R.
Unjudged(label, x, R, times, k) ==
  /\ DOMAIN label = DOMAIN Unmatched(0, NoReason)
  /\ label.target = x /\ label.index = k /\ label.future = times[k]
  /\ label.local = R[k].ts /\ label.price = R[k].price
  /\ label.gap = times[k] - x /\ label.valid = FALSE

\* The last checks of a label leave what it points at alone.
LEMMA JudgedIsMade ==
  ASSUME NEW label, NEW mid, NEW x \in Int, NEW R, NEW times, NEW k, k <= Len(times),
         times[k] \in Int, R[k].price \in Int, R[k].price > 0,
         Unjudged(label, x, R, times, k)
  PROVE  MadeFrom(Judged(label, mid), x, R, times, k)
<1> DEFINE judged == Judged(label, mid)
<1>1. /\ judged.target = label.target /\ judged.index = label.index
      /\ judged.future = label.future /\ judged.local = label.local
      /\ judged.price = label.price
      /\ judged.valid <=> label.gap <= MaxReferenceGap
  BY ReferenceAssumption DEF Judged, Unmatched, Unjudged
<1> HIDE DEF judged
<1>2. MadeFrom(judged, x, R, times, k)
  BY <1>1 DEF MadeFrom, Unjudged
<1> QED BY <1>2 DEF judged

\* build_reference_label and _bookticker_label point where their search ends.
LEMMA ReferenceLabelMade ==
  ASSUME NEW sample, NEW R, NEW n \in Nat, DOMAIN R = 1 .. n, Priced(sample, R),
         BisectLeft(Times(R), sample.ts + LabelMs, 1) \in 1 .. n + 1
  PROVE  /\ MadeFrom(BuildReferenceLabel(sample, R), sample.ts + LabelMs, R, Times(R),
                     BisectLeft(Times(R), sample.ts + LabelMs, 1))
         /\ BookTickerLabel(sample, R) = BuildReferenceLabel(sample, R)
<1> DEFINE times == Times(R)
           x == sample.ts + LabelMs
           k == BisectLeft(times, x, 1)
           base == [Unmatched(x, NoReason) EXCEPT !.first = BisectRight(times, sample.ts, Len(times) + 1)]
           matched == Matched(base, k, times[k], R[k])
           label == BuildReferenceLabel(sample, R)
<1>1. Len(times) = n /\ \A m \in 1 .. n : times[m] = R[m].ts
  BY DEF Times
<1>2. k \in 1 .. n + 1 /\ x \in Int
  BY ReferenceAssumption DEF Priced
<1>3. label = IF k <= n THEN Judged(matched, SampleMid(sample))
              ELSE [base EXCEPT !.reason = "NO_FUTURE_REFERENCE"]
  <2>1. ~(SampleMid(sample) <= 0)
    BY DEF Priced
  <2>2. SelectFutureReference(times, sample.ts) = IF k <= n THEN k ELSE NoIndex
    BY <1>1 DEF SelectFutureReference
  <2>3. k # NoIndex
    BY <1>2 DEF NoIndex
  <2> QED BY <2>1, <2>2, <2>3 DEF BuildReferenceLabel
<1>4. BookTickerLabel(sample, R) = label
  BY DEF BookTickerLabel, BuildReferenceLabel
<1> HIDE DEF label, k, times
<1>5. CASE k <= n
  <2>1. k \in 1 .. n /\ times[k] \in Int /\ R[k].price \in Int /\ R[k].price > 0 /\ times[k] = R[k].ts
    BY <1>1, <1>2, <1>5 DEF Priced
  <2>2. Unjudged(matched, x, R, times, k)
    <3> HIDE DEF x
    <3> QED BY DEF Matched, Unmatched, Unjudged
  <2> HIDE DEF matched, x
  <2>3. MadeFrom(Judged(matched, SampleMid(sample)), x, R, times, k)
    BY <1>1, <1>2, <1>5, <2>1, <2>2, JudgedIsMade
  <2>4. label = Judged(matched, SampleMid(sample))
    BY <1>3, <1>5
  <2> QED BY <1>4, <2>3, <2>4 DEF label, k, times, x
<1>6. CASE ~(k <= n)
  <2>1. label = [base EXCEPT !.reason = "NO_FUTURE_REFERENCE"]
    BY <1>3, <1>6
  <2>2. label.target = x /\ label.index = NoIndex /\ label.valid = FALSE
    <3> HIDE DEF x
    <3> QED BY <2>1 DEF Unmatched
  <2> HIDE DEF x
  <2> QED BY <1>1, <1>4, <1>6, <2>2 DEF MadeFrom, label, k, times, x
<1> QED BY <1>5, <1>6

\* A target after the last time is one the search runs past.
LEMMA PastTheLast ==
  ASSUME NEW times \in Seq(Int), IsOrdered(times, Len(times)), NEW x \in Int
  PROVE  /\ BisectLeft(times, x, 1) \in 1 .. Len(times) + 1
         /\ (times = << >> \/ x > Last(times)) <=> ~(BisectLeft(times, x, 1) <= Len(times))
<1> DEFINE k == BisectLeft(times, x, 1)
<1>1. Len(times) \in Nat /\ 1 \in 1 .. Len(times) + 1 /\ \A j \in 1 .. Len(times) : times[j] \in Int
  OBVIOUS
<1>2. k \in 1 .. Len(times) + 1 /\ (\A j \in 1 .. k - 1 : times[j] < x) /\ \A j \in k .. Len(times) : times[j] >= x
  BY <1>1, BisectLeftFinds
<1> HIDE DEF k
<1>3. CASE times = << >>
  BY <1>2, <1>3 DEF k
<1>4. CASE times # << >>
  <2>1. Len(times) \in 1 .. Len(times) /\ Last(times) = times[Len(times)] /\ Last(times) \in Int
    BY <1>1, <1>4 DEF Last
  <2>2. CASE k <= Len(times)
    <3>1. Last(times) >= x
      BY <1>2, <2>1, <2>2
    <3>2. ~(x > Last(times))
      BY <2>1, <3>1
    <3> QED BY <1>2, <1>4, <2>2, <3>2 DEF k
  <2>3. CASE ~(k <= Len(times))
    <3>1. Len(times) \in 1 .. k - 1
      BY <1>2, <2>1, <2>3
    <3>2. x > Last(times)
      BY <1>2, <2>1, <3>1
    <3> QED BY <1>2, <2>3, <3>2 DEF k
  <2> QED BY <2>2, <2>3
<1> QED BY <1>3, <1>4

\* So does build_receive_time_label, which asks for the last time first.
LEMMA ReceiveLabelMade ==
  ASSUME NEW sample, NEW R, NEW n \in Nat, DOMAIN R = 1 .. n, Priced(sample, R),
         IsOrdered(Times(R), n)
  PROVE  MadeFrom(BuildReceiveTimeLabel(sample, R), sample.ts + LabelMs, R, Times(R),
                  BisectLeft(Times(R), sample.ts + LabelMs, 1))
<1> DEFINE times == Times(R)
           x == sample.ts + LabelMs
           k == BisectLeft(times, x, 1)
           base == [Unmatched(x, NoReason) EXCEPT !.first = BisectRight(times, sample.ts, Len(times) + 1)]
           matched == [Matched(base, k, times[k], R[k]) EXCEPT !.eligible = TRUE]
           label == BuildReceiveTimeLabel(sample, R)
<1>1. times \in Seq(Int) /\ Len(times) = n /\ \A m \in 1 .. n : times[m] = R[m].ts
  BY DEF Times, Priced
<1>2. x \in Int
  BY ReferenceAssumption DEF Priced
<1>3. base.target = x
  BY DEF Unmatched
<1> HIDE DEF times, x
<1>4. /\ k \in 1 .. Len(times) + 1
      /\ (times = << >> \/ x > Last(times)) <=> ~(k <= Len(times))
  BY <1>1, <1>2, PastTheLast DEF times
<1>5. label = IF ~(k <= n) THEN [base EXCEPT !.reason = "NO_FUTURE_REFERENCE"]
              ELSE Judged(matched, SampleMid(sample))
  <2>1. ~(SampleMid(sample) <= 0)
    BY DEF Priced
  <2> DEFINE made(t) ==
        IF SampleMid(sample) <= 0 THEN [base EXCEPT !.reason = "CURRENT_MID_INVALID"]
        ELSE IF times = << >> \/ t > Last(times) THEN [base EXCEPT !.reason = "NO_FUTURE_REFERENCE"]
        ELSE Judged([Matched(base, BisectLeft(times, t, 1), times[BisectLeft(times, t, 1)],
                             R[BisectLeft(times, t, 1)]) EXCEPT !.eligible = TRUE],
                    SampleMid(sample))
  <2>2. label = made(base.target)
    BY DEF BuildReceiveTimeLabel, times, x
  <2>3. label = made(x)
    <3> HIDE DEF made, label, base
    <3> QED BY <1>3, <2>2
  <2> HIDE DEF label, base
  <2> QED BY <1>1, <1>4, <2>1, <2>3
<1> HIDE DEF label, k
<1>6. CASE k <= n
  <2>1. k \in 1 .. n /\ times[k] \in Int /\ R[k].price \in Int /\ R[k].price > 0 /\ times[k] = R[k].ts
    BY <1>1, <1>4, <1>6 DEF Priced
  <2>2. Unjudged(matched, x, R, times, k)
    BY DEF Matched, Unmatched, Unjudged
  <2> HIDE DEF matched
  <2>3. MadeFrom(Judged(matched, SampleMid(sample)), x, R, times, k)
    BY <1>1, <1>2, <1>6, <2>1, <2>2, JudgedIsMade
  <2>4. label = Judged(matched, SampleMid(sample))
    BY <1>5, <1>6
  <2> QED BY <2>3, <2>4 DEF label, k, times, x
<1>7. CASE ~(k <= n)
  <2>1. label = [base EXCEPT !.reason = "NO_FUTURE_REFERENCE"]
    BY <1>5, <1>7
  <2>2. label.target = x /\ label.index = NoIndex /\ label.valid = FALSE
    BY <2>1 DEF Unmatched
  <2>3. MadeFrom(label, x, R, times, k)
    BY <1>1, <1>7, <2>2 DEF MadeFrom
  <2> QED BY <2>3 DEF label, k, times, x
<1> QED BY <1>6, <1>7

\* An exchange time label that is eligible was found by the search.
LEMMA ExchangeLabelMade ==
  ASSUME NEW sample, sample.exchange \in Int \cup {NoValue}, NEW R, NEW n \in Nat, DOMAIN R = 1 .. n,
         Priced(sample, R), NEW schema, ExchangeTimes(R) \in Seq(Int), IsOrdered(ExchangeTimes(R), n),
         BuildExchangeTimeLabel(sample, R, schema).eligible
  PROVE  /\ sample.exchange \in Int
         /\ MadeFrom(BuildExchangeTimeLabel(sample, R, schema), sample.exchange + LabelMs, R,
                     ExchangeTimes(R), BisectLeft(ExchangeTimes(R), sample.exchange + LabelMs, 1))
<1> DEFINE times == ExchangeTimes(R)
           target == IF sample.exchange = NoValue THEN NoValue ELSE sample.exchange + LabelMs
           base == [Unmatched(target, NoReason) EXCEPT
                      !.featureLag = ReceiveLag(sample.wall, sample.exchange),
                      !.featureLocal = sample.ts]
           k == BisectLeft(times, target, 1)
           matched == [Matched(base, k, times[k], R[k]) EXCEPT
                         !.eligible = TRUE, !.futureLag = ReceiveLag(R[k].wall, times[k])]
           label == BuildExchangeTimeLabel(sample, R, schema)
<1>1. Len(times) = n /\ times \in Seq(Int)
  BY DEF ExchangeTimes
<1>2. label = IF ~schema.supported THEN [base EXCEPT !.reason = schema.reason]
              ELSE IF target = NoValue
                THEN [base EXCEPT !.reason = "FEATURE_EXCHANGE_TIMESTAMP_MISSING"]
              ELSE IF SampleMid(sample) <= 0 THEN [base EXCEPT !.reason = "CURRENT_MID_INVALID"]
              ELSE IF times = << >> \/ target > Last(times)
                THEN [base EXCEPT !.reason = "NO_FUTURE_REFERENCE"]
              ELSE Judged(matched, SampleMid(sample))
  <2> HIDE DEF base, times
  <2> QED BY DEF BuildExchangeTimeLabel, base, times
<1>3. \A r : [base EXCEPT !.reason = r].eligible = FALSE
  <2> HIDE DEF target
  <2> QED BY DEF Unmatched
<1>4. label.eligible
  OBVIOUS
<1> HIDE DEF label, base
<1>5. target # NoValue /\ ~(times = << >> \/ target > Last(times)) /\ label = Judged(matched, SampleMid(sample))
  <2> HIDE DEF matched, target, times
  <2> QED BY <1>2, <1>3, <1>4
<1>6. sample.exchange \in Int /\ target = sample.exchange + LabelMs /\ target \in Int
  BY <1>5, ReferenceAssumption
<1> HIDE DEF target, times
<1>7. k \in 1 .. n /\ k <= Len(times)
  BY <1>1, <1>5, <1>6, PastTheLast DEF times
<1> HIDE DEF k
<1>8. times[k] \in Int /\ R[k].price \in Int /\ R[k].price > 0
  <2>1. times[k] \in Int
    BY <1>1, <1>7
  <2>2. k \in DOMAIN R
    BY <1>7
  <2> QED BY <2>1, <2>2 DEF Priced
<1>9. Unjudged(matched, target, R, times, k)
  BY DEF Matched, Unmatched, Unjudged, base
<1> HIDE DEF matched
<1>10. MadeFrom(Judged(matched, SampleMid(sample)), target, R, times, k)
  BY <1>1, <1>6, <1>7, <1>8, <1>9, JudgedIsMade
<1> QED BY <1>5, <1>6, <1>10 DEF label, k, times

-----------------------------------------------------------------------------
(* Sorted references, and the labels made from them. *)

\* A clean sample, whose mid price is positive.
CleanRow == {row \in SampleRow : CleanSampleErrors(row) = {}}

\* The mid price of a clean sample is its own and positive.
LEMMA CleanMid ==
  ASSUME NEW row \in CleanRow
  PROVE  /\ row.ts \in Int /\ row.exchange \in Int \cup {NoValue}
         /\ SampleMid(row) = row.bid + row.ask /\ SampleMid(row) \in Int /\ SampleMid(row) > 0
<1>1. row \in SampleRow /\ CleanSampleErrors(row) = {}
  BY DEF CleanRow
<1>2. row.exchange \in Int \cup {NoValue}
  BY <1>1 DEF SampleRow
<1>3. row.ts \in Int /\ row.bid \in Int /\ row.ask \in Int /\ row.bid > 0 /\ row.ask > 0 /\ row.bid < row.ask
  BY <1>1, CleanPrices
<1> QED BY <1>2, <1>3 DEF SampleMid

\* Neither a clean sample nor a reference is refused for its price.
LEMMA SeenPrices ==
  ASSUME NEW sample \in CleanRow, NEW E \in SUBSET SeenRow, NEW R, NEW n, NEW f, Lists(R, n, E, f)
  PROVE  Priced(sample, R)
<1>1. \A e \in SeenRow : e.price \in Int /\ e.price > 0 /\ e.ts \in Int
  BY DEF SeenRow, EventRow, ReferenceRow
<1>2. \A m \in DOMAIN R : R[m] \in SeenRow
  BY DEF Lists
<1> QED BY <1>1, <1>2, CleanMid DEF Priced

\* The local times of references in the order of their receipt.
LEMMA LocalTimesOf ==
  ASSUME NEW events \in Seq(SeenRow), NEW R, NEW n, Lists(R, n, Range(events), LocalOf(events))
  PROVE  /\ \A e \in Range(events) : LocalOf(events)[e] \in Int
         /\ Times(R) = [m \in 1 .. n |-> LocalOf(events)[R[m]]]
         /\ n \in Nat /\ DOMAIN R = 1 .. n
         /\ Times(R) \in Seq(Int) /\ Len(Times(R)) = n /\ IsOrdered(Times(R), n)
         /\ Range(events) \subseteq SeenRow
<1> DEFINE E == Range(events)
           f == LocalOf(events)
<1>1. E \subseteq SeenRow
  BY DEF Range
<1>2. \A e \in E : f[e] = e.ts /\ f[e] \in Int
  BY <1>1, SeenTimes DEF LocalOf
<1>3. Lists(R, n, E, f)
  OBVIOUS
<1> HIDE DEF E, f
<1>4. n \in Nat /\ DOMAIN R = 1 .. n /\ \A m \in 1 .. n : R[m] \in E
  BY <1>3 DEF Lists
<1>5. Times(R) = [m \in 1 .. n |-> f[R[m]]]
  BY <1>2, <1>4 DEF Times
<1>6. Times(R) \in Seq(Int) /\ Len(Times(R)) = n
  BY <1>2, <1>4, <1>5
<1>7. IsOrdered(Times(R), n)
  <2>1. \A l, m \in 1 .. n : l <= m => f[R[l]] <= f[R[m]]
    BY <1>3 DEF Lists
  <2> QED BY <1>5, <2>1 DEF IsOrdered
<1> QED BY <1>1, <1>2, <1>4, <1>5, <1>6, <1>7 DEF E, f

\* Labels by receive time, made from the references in the order of their receipt.
LEMMA ReceiveOrderPoints ==
  ASSUME NEW events \in Seq(SeenRow), NEW sample \in CleanRow, NEW R, NEW n,
         Lists(R, n, Range(events), LocalOf(events))
  PROVE  /\ PointsAtEarliest(BuildReferenceLabel(sample, R), events, LocalTime)
         /\ PointsAtEarliest(BookTickerLabel(sample, R), events, LocalTime)
         /\ PointsAtEarliest(BuildReceiveTimeLabel(sample, R), events, LocalTime)
<1> DEFINE E == Range(events)
           f == LocalOf(events)
           x == sample.ts + LabelMs
           k == BisectLeft(Times(R), x, 1)
<1>1. /\ \A e \in E : f[e] \in Int
      /\ Times(R) = [m \in 1 .. n |-> f[R[m]]]
      /\ n \in Nat /\ DOMAIN R = 1 .. n
      /\ Times(R) \in Seq(Int) /\ Len(Times(R)) = n /\ IsOrdered(Times(R), n)
      /\ E \subseteq SeenRow
  BY LocalTimesOf
<1>2. Priced(sample, R)
  BY <1>1, SeenPrices
<1>3. x \in Int
  BY CleanMid, ReferenceAssumption
<1>4. k \in 1 .. n + 1
  <2> HIDE DEF x
  <2> QED BY <1>1, <1>3, PastTheLast
<1>5. /\ MadeFrom(BuildReferenceLabel(sample, R), x, R, Times(R), k)
      /\ BookTickerLabel(sample, R) = BuildReferenceLabel(sample, R)
  BY <1>1, <1>2, <1>4, ReferenceLabelMade
<1>6. MadeFrom(BuildReceiveTimeLabel(sample, R), x, R, Times(R), k)
  BY <1>1, <1>2, ReceiveLabelMade
<1>7. ASSUME NEW label, MadeFrom(label, x, R, Times(R), k)
      PROVE  PointsAtEarliest(label, events, LocalTime)
  <2>1. Lists(R, n, E, f)
    OBVIOUS
  <2> DEFINE times == Times(R)
  <2>2. times = [m \in 1 .. n |-> f[R[m]]] /\ MadeFrom(label, x, R, times, BisectLeft(times, x, 1))
    BY <1>1, <1>7
  <2> HIDE DEF E, f, x, times
  <2>3. Points(label, x, E, f)
    BY <1>1, <1>3, <2>1, <2>2, SearchPoints
  <2> QED BY <1>3, <2>3, LocalPoints DEF E, f
<1> QED BY <1>5, <1>6, <1>7

\* The references of a source sorted by receive time, whatever their order in the file.
LEMMA SortedByReceipt ==
  ASSUME NEW events \in Seq(SeenRow)
  PROVE  Lists(SortedBy(events, Times(events)), Len(events), Range(events), LocalOf(events))
<1> DEFINE E == Range(events)
           f == LocalOf(events)
           keys == Times(events)
<1>1. E \subseteq SeenRow /\ events \in Seq(E) /\ \A e \in E : \E m \in 1 .. Len(events) : events[m] = e
  BY DEF Range
<1>2. \A e \in E : f[e] = e.ts /\ f[e] \in Int
  BY <1>1, SeenTimes DEF LocalOf
<1>3. \A j \in 1 .. Len(events) : keys[j] = f[events[j]]
  <2> TAKE j \in 1 .. Len(events)
  <2>1. events[j] \in E /\ keys[j] = events[j].ts
    BY DEF Times, Range
  <2> QED BY <1>2, <2>1
<1> HIDE DEF E, f, keys
<1> QED BY <1>1, <1>2, <1>3, SortedLists DEF E, f, keys

\* References that were never received out of order, as they are in the file.
LEMMA ReceivedInOrder ==
  ASSUME NEW events \in Seq(SeenRow), Backwards(events) = 0
  PROVE  Lists(events, Len(events), Range(events), LocalOf(events))
<1> DEFINE E == Range(events)
           f == LocalOf(events)
           n == Len(events)
<1>1. E \subseteq SeenRow /\ n \in Nat /\ DOMAIN events = 1 .. n
      /\ (\A m \in 1 .. n : events[m] \in E) /\ \A e \in E : \E m \in 1 .. n : events[m] = e
  BY DEF Range
<1>2. \A m \in 1 .. n : f[events[m]] = events[m].ts /\ events[m].ts \in Int
  BY <1>1, SeenTimes DEF LocalOf
<1>3. \A k \in 1 .. n - 1 : ~(events[k + 1].ts < events[k].ts)
  <2>1. CASE n = 0
    BY <2>1
  <2>2. CASE n # 0
    <3> DEFINE T == {k \in 1 .. n - 1 : events[k + 1].ts < events[k].ts}
    <3>1. n - 1 \in Nat
      BY <1>1, <2>2
    <3>2. T \in SUBSET (1 .. n - 1) /\ Cardinality(T) = 0
      BY DEF Backwards
    <3>3. T = {}
      <4> HIDE DEF T, n
      <4> QED BY <3>1, <3>2, EmptyCount
    <3> QED BY <3>3
  <2> QED BY <2>1, <2>2
<1> HIDE DEF n
<1>4. \A k \in 1 .. n - 1 : k + 1 \in 1 .. n /\ events[k].ts <= events[k + 1].ts
  <2> TAKE k \in 1 .. n - 1
  <2>1. k \in 1 .. n /\ k + 1 \in 1 .. n
    BY <1>1
  <2>2. events[k].ts \in Int /\ events[k + 1].ts \in Int /\ ~(events[k + 1].ts < events[k].ts)
    BY <1>2, <1>3, <2>1
  <2> QED BY <2>1, <2>2
<1>5. \A l, m \in 1 .. n : l <= m => events[l].ts <= events[m].ts
  <2> SUFFICES ASSUME NEW l \in 1 .. n, \E m \in 1 .. n : l <= m /\ ~(events[l].ts <= events[m].ts)
               PROVE  FALSE
    OBVIOUS
  <2> DEFINE bad == {m \in Nat : m <= n /\ l <= m /\ ~(events[l].ts <= events[m].ts)}
  <2>1. PICK m \in bad : \A j \in bad : m <= j
    <3>1. bad \in SUBSET Nat /\ bad # {}
      BY <1>1
    <3> HIDE DEF bad
    <3> QED BY <3>1, LeastOf
  <2>2. m \in 1 .. n /\ l <= m /\ ~(events[l].ts <= events[m].ts)
    BY <1>1, <2>1
  <2>3. l # m
    <3>1. events[m].ts \in Int
      BY <1>2, <2>2
    <3> QED BY <2>2, <3>1
  <2>4. m - 1 \in 1 .. n - 1 /\ l <= m - 1 /\ m - 1 \in Nat /\ m - 1 < m /\ (m - 1) + 1 = m
    BY <1>1, <2>2, <2>3
  <2>5. m - 1 \notin bad
    <3> HIDE DEF bad
    <3> QED BY <1>1, <2>1, <2>2, <2>4
  <2>6. events[l].ts <= events[m - 1].ts
    BY <1>1, <2>4, <2>5
  <2>7. events[m - 1].ts <= events[m].ts
    BY <1>4, <2>4
  <2>8. m - 1 \in 1 .. n
    BY <1>1, <2>4
  <2>9. events[l].ts \in Int /\ events[m - 1].ts \in Int /\ events[m].ts \in Int
    BY <1>2, <2>2, <2>8
  <2> QED BY <2>2, <2>6, <2>7, <2>9
<1>6. \A l, m \in 1 .. n : l <= m => f[events[l]] <= f[events[m]]
  BY <1>2, <1>5
<1> QED BY <1>1, <1>6 DEF Lists, n

\* The references that have an exchange time, sorted by it.
LEMMA SortedByExchange ==
  ASSUME NEW events \in Seq(SeenRow)
  PROVE  LET dated == Those(events, HasExchangeTime)
         IN  \E n : Lists(SortedBy(dated, ExchangeTimes(dated)), n, Dated(events), ExchangeOf(events))
<1> DEFINE E == Dated(events)
           f == ExchangeOf(events)
           at == {k \in DOMAIN events : HasExchangeTime(events[k])}
           dated == Picked(events, at)
           keys == ExchangeTimes(dated)
<1>1. Those(events, HasExchangeTime) = dated
  BY DEF Those
<1>2. Len(events) \in Nat /\ DOMAIN events = 1 .. Len(events) /\ \A k \in 1 .. Len(events) : events[k] \in SeenRow
  OBVIOUS
<1>3. E = {events[k] : k \in at} /\ at \subseteq 1 .. Len(events)
  BY <1>2 DEF Dated
<1>4. \A e \in E : f[e] = ExchangeTime(e) /\ f[e] \in Int
  <2> TAKE e \in E
  <2>1. PICK k \in at : e = events[k]
    BY <1>3
  <2>2. e \in SeenRow /\ HasExchangeTime(e)
    BY <1>2, <1>3, <2>1
  <2> QED BY <2>2, SeenTimes DEF ExchangeOf
<1>5. dated \in Seq(E)
  <2>1. \A k \in 1 .. Len(events) : k \in at => events[k] \in E
    BY <1>3
  <2> HIDE DEF E, at
  <2> QED BY <1>2, <2>1, PickedFrom
<1>6. \A e \in E : \E m \in 1 .. Len(dated) : dated[m] = e
  <2> TAKE e \in E
  <2>1. PICK k \in at : e = events[k]
    BY <1>3
  <2>2. k \in 1 .. Len(events)
    BY <1>3
  <2> HIDE DEF at
  <2>3. \E m \in 1 .. Len(Picked(events, at)) : Picked(events, at)[m] = events[k]
    BY <2>1, <2>2, PickedWhole
  <2> QED BY <2>1, <2>3
<1> HIDE DEF E, f, at, dated
<1>7. \A j \in 1 .. Len(dated) : keys[j] = f[dated[j]]
  <2> TAKE j \in 1 .. Len(dated)
  <2>1. j \in DOMAIN dated /\ dated[j] \in E
    BY <1>5
  <2> QED BY <1>4, <2>1 DEF ExchangeTimes
<1> HIDE DEF keys
<1>8. Lists(SortedBy(dated, keys), Len(dated), E, f)
  BY <1>4, <1>5, <1>6, <1>7, SortedLists
<1> QED BY <1>1, <1>8 DEF keys, E, f

\* An eligible label by exchange time, made from the dated references in their order.
LEMMA ExchangeOrderPoints ==
  ASSUME NEW events \in Seq(SeenRow), NEW sample \in CleanRow, NEW R, NEW n,
         Lists(R, n, Dated(events), ExchangeOf(events)), NEW schema,
         BuildExchangeTimeLabel(sample, R, schema).eligible
  PROVE  PointsAtEarliest(BuildExchangeTimeLabel(sample, R, schema), events, ExchangeTime)
<1> DEFINE E == Dated(events)
           f == ExchangeOf(events)
           x == sample.exchange + LabelMs
           times == ExchangeTimes(R)
           label == BuildExchangeTimeLabel(sample, R, schema)
<1>1. E \subseteq SeenRow /\ \A e \in E : f[e] = ExchangeTime(e) /\ f[e] \in Int
  <2>1. \A e \in E : e \in SeenRow /\ HasExchangeTime(e)
    BY DEF Dated
  <2> QED BY <2>1, SeenTimes DEF ExchangeOf
<1>2. Lists(R, n, E, f)
  OBVIOUS
<1> HIDE DEF E, f
<1>3. n \in Nat /\ DOMAIN R = 1 .. n /\ \A m \in 1 .. n : R[m] \in E
  BY <1>2 DEF Lists
<1>4. times = [m \in 1 .. n |-> f[R[m]]]
  BY <1>1, <1>3 DEF ExchangeTimes
<1>5. times \in Seq(Int)
  <2> HIDE DEF times
  <2> QED BY <1>1, <1>3, <1>4
<1>6. IsOrdered(times, n)
  <2>1. \A l, m \in 1 .. n : l <= m => f[R[l]] <= f[R[m]]
    BY <1>2 DEF Lists
  <2> HIDE DEF times
  <2> QED BY <1>4, <2>1 DEF IsOrdered
<1>7. Priced(sample, R)
  BY <1>1, <1>2, SeenPrices
<1>8. sample.exchange \in Int \cup {NoValue}
  BY CleanMid
<1>9. /\ sample.exchange \in Int
      /\ MadeFrom(label, x, R, times, BisectLeft(times, x, 1))
  BY <1>3, <1>5, <1>6, <1>7, <1>8, ExchangeLabelMade
<1>10. x \in Int
  BY <1>9, ReferenceAssumption
<1> HIDE DEF x, times, label
<1>11. Points(label, x, E, f)
  BY <1>1, <1>2, <1>4, <1>9, <1>10, SearchPoints
<1>12. PointsAtEarliest(label, events, ExchangeTime)
  BY <1>10, <1>11, ExchangePoints DEF E, f
<1> QED BY <1>12 DEF label

-----------------------------------------------------------------------------
(* The references a program reads are the ones the property names. *)

\* EventsSeen, of any files.
SeenIn(file, files, s) ==
  IF s = Depthmid
    THEN LET samples == Those(Lines(file), IsClean)
         IN  [i \in DOMAIN samples |-> DepthReferenceEvent(samples[i])]
    ELSE Those(Lines(files[s]), IsReference)

\* A filter of an empty list.
LEMMA NothingPicked ==
  ASSUME NEW at
  PROVE  Picked(<< >>, at) = << >>
<1>1. << >> \in Seq(Int) /\ DOMAIN << >> \subseteq at
  OBVIOUS
<1> QED BY <1>1, PickedAll

\* A feed: 4.2B and the others take the same references from it.
LEMMA FeedIsSeen ==
  ASSUME NEW file, file = NoFile \/ file \in Seq(EventRow \cup {Torn})
  PROVE  /\ ValidateReferenceEvents(file).events = Those(Lines(file), IsReference)
         /\ ValidateReferenceQuotes(file).events = Those(Lines(file), IsReference)
         /\ Those(Lines(file), IsReference) \in Seq(SeenRow)
<1>1. CASE file = NoFile
  <2>1. Those(<< >>, IsReference) = << >>
    BY NothingPicked DEF Those
  <2>2. << >> \in Seq(SeenRow)
    OBVIOUS
  <2> QED BY <1>1, <2>1, <2>2 DEF ValidateReferenceEvents, ValidateReferenceQuotes, ReadSource, Lines
<1>2. CASE file # NoFile
  <2> DEFINE accepted(line) == line # Torn /\ QuoteErrors(line) = {} /\ line.quality
             at == {k \in DOMAIN file : IsReference(file[k])}
  <2>1. Len(file) \in Nat /\ DOMAIN file = 1 .. Len(file) /\ \A k \in 1 .. Len(file) : file[k] \in EventRow \cup {Torn}
    BY <1>2
  <2>2. \A line \in EventRow : ReferenceEventErrors(line) = {} <=> line.quality
    <3> TAKE line \in EventRow
    <3>1. /\ line.price = line.bid + line.ask /\ line.bid \in Int /\ line.ask \in Int
          /\ line.quality \in BOOLEAN
          /\ line.quality <=> line.bid > 0 /\ line.ask > 0 /\ line.bid < line.ask
      BY DEF EventRow, ReferenceRow
    <3>2. line.quality => ReferenceEventErrors(line) = {}
      <4> SUFFICES ASSUME line.quality PROVE ReferenceEventErrors(line) = {}
        OBVIOUS
      <4>1. line.bid > 0 /\ line.ask > 0 /\ line.bid < line.ask /\ line.price > 0 /\ line.price \in Int
        BY <3>1
      <4>2. ~(line.price <= 0) /\ ~(line.bid <= 0 \/ line.ask <= 0 \/ line.bid >= line.ask)
        BY <3>1, <4>1
      <4> QED BY <4>2 DEF ReferenceEventErrors
    <3>3. "quality" \in ReferenceEventErrors(line) <=> ~line.quality
      BY DEF ReferenceEventErrors
    <3> QED BY <3>2, <3>3
  <2>3. \A line \in EventRow : QuoteErrors(line) = {} /\ line.quality <=> line.quality
    <3> TAKE line \in EventRow
    <3>1. /\ line.bid \in Int /\ line.ask \in Int /\ line.quality \in BOOLEAN
          /\ line.quality => line.bid < line.ask
      BY DEF EventRow, ReferenceRow
    <3>2. line.quality => ~(line.bid >= line.ask)
      BY <3>1
    <3> QED BY <3>2 DEF QuoteErrors
  <2>4. \A k \in DOMAIN file : accepted(file[k]) <=> IsReference(file[k])
    BY <2>1, <2>2, <2>3 DEF IsReference
  <2>5. {k \in DOMAIN file : accepted(file[k])} = at
    BY <2>4
  <2>6. Those(file, accepted) = Picked(file, at) /\ Those(file, IsReference) = Picked(file, at)
    BY <2>5 DEF Those
  <2>7. Picked(file, at) \in Seq(SeenRow)
    <3>1. \A k \in 1 .. Len(file) : k \in at => file[k] \in SeenRow
      <4> TAKE k \in 1 .. Len(file)
      <4> SUFFICES ASSUME k \in at PROVE file[k] \in SeenRow
        OBVIOUS
      <4>1. file[k] \in EventRow /\ file[k].quality
        BY <2>1, <2>2 DEF IsReference
      <4>2. file[k].price > 0
        BY <4>1 DEF EventRow, ReferenceRow
      <4> QED BY <4>1, <4>2 DEF SeenRow
    <3> HIDE DEF at
    <3> QED BY <2>1, <3>1, PickedFrom
  <2>8. ValidateReferenceEvents(file).events = Those(file, IsReference)
    BY <1>2 DEF ValidateReferenceEvents, ReadSource
  <2>9. ValidateReferenceQuotes(file).events = Those(file, accepted)
    BY <1>2 DEF ValidateReferenceQuotes, ReadSource
  <2>10. Lines(file) = file
    BY <1>2 DEF Lines
  <2> QED BY <2>6, <2>7, <2>8, <2>9, <2>10
<1> QED BY <1>1, <1>2

\* The depth source's event of a clean sample is a reference.
LEMMA DepthEvent ==
  ASSUME NEW row \in CleanRow
  PROVE  DepthReferenceEvent(row) \in SeenRow /\ ReferenceEventErrors(DepthReferenceEvent(row)) = {}
<1>1. /\ row.ts \in Int /\ row.wall \in Int /\ row.exchange \in Int \cup {NoValue}
      /\ row.bid \in Int /\ row.ask \in Int /\ row \in SampleRow /\ CleanSampleErrors(row) = {}
  BY DEF CleanRow, SampleRow
<1>2. row.bid > 0 /\ row.ask > 0 /\ row.bid < row.ask
  BY <1>1, CleanPrices
<1>3. SampleMid(row) = row.bid + row.ask /\ SampleMid(row) > 0 /\ SampleMid(row) \in Int
  BY CleanMid
<1>4. /\ DepthReferenceEvent(row).quality = TRUE
      /\ DepthReferenceEvent(row).price = row.bid + row.ask
      /\ DepthReferenceEvent(row).bid = row.bid /\ DepthReferenceEvent(row).ask = row.ask
  BY <1>3 DEF DepthReferenceEvent
<1>5. DepthReferenceEvent(row) \in EventRow
  BY <1>1, <1>2, <1>3 DEF DepthReferenceEvent, EventRow, ReferenceRow
<1>6. /\ ~(row.bid + row.ask <= 0) /\ ~(row.bid <= 0 \/ row.ask <= 0 \/ row.bid >= row.ask)
      /\ row.bid + row.ask > 0
  BY <1>1, <1>2
<1>7. DepthReferenceEvent(row) \in SeenRow
  BY <1>4, <1>5, <1>6 DEF SeenRow
<1>8. ReferenceEventErrors(DepthReferenceEvent(row)) = {}
  BY <1>4, <1>6 DEF ReferenceEventErrors
<1> QED BY <1>7, <1>8

\* The clean samples as references of their own feed: all of them are taken.
LEMMA DepthIsSeen ==
  ASSUME NEW file \in Seq(SampleRow), file # NoFile, AllClean(file), NEW files
  PROVE  /\ ValidateDepthReferenceEvents(file).events = SeenIn(file, files, Depthmid)
         /\ SeenIn(file, files, Depthmid) \in Seq(SeenRow)
<1> DEFINE events == [i \in DOMAIN file |-> DepthReferenceEvent(file[i])]
           at == {k \in DOMAIN events : IsReference(events[k])}
<1>1. /\ Len(file) \in Nat /\ DOMAIN file = 1 .. Len(file)
      /\ \A k \in 1 .. Len(file) : file[k] \in CleanRow
  BY DEF AllClean, CleanRow
<1>2. ASSUME NEW row \in CleanRow
      PROVE  DepthReferenceEvent(row) \in SeenRow /\ ReferenceEventErrors(DepthReferenceEvent(row)) = {}
  BY DepthEvent
<1>3. /\ events \in Seq(SeenRow) /\ DOMAIN events = 1 .. Len(file)
      /\ \A k \in 1 .. Len(file) : events[k] = DepthReferenceEvent(file[k])
  BY <1>1, <1>2
<1>4. \A k \in 1 .. Len(file) : IsClean(file[k]) /\ IsReference(events[k])
  <2> TAKE k \in 1 .. Len(file)
  <2>1. CleanSampleErrors(file[k]) = {} /\ ReferenceEventErrors(events[k]) = {}
    BY <1>1, <1>2, <1>3 DEF CleanRow
  <2>2. file[k] # Torn /\ events[k] # Torn
    <3>1. file[k] \in SampleRow /\ events[k] \in ReferenceRow
      BY <1>1, <1>3 DEF CleanRow, SeenRow, EventRow
    <3> QED BY <3>1, PipelineAssumption
  <2> QED BY <2>1, <2>2 DEF IsClean, IsReference
<1>5. Picked(file, {k \in DOMAIN file : IsClean(file[k])}) = file
  <2>1. DOMAIN file \subseteq {k \in DOMAIN file : IsClean(file[k])}
    BY <1>1, <1>4
  <2>2. file \in Seq(SampleRow)
    OBVIOUS
  <2> QED BY <2>1, <2>2, PickedAll
<1>6. Picked(events, at) = events
  <2>1. DOMAIN events \subseteq at
    BY <1>3, <1>4
  <2> HIDE DEF events, at
  <2> QED BY <1>3, <2>1, PickedAll
<1>7. SeenIn(file, files, Depthmid) = events
  <2>1. Lines(file) = file
    BY DEF Lines
  <2>2. Those(file, IsClean) = file
    BY <1>5 DEF Those
  <2> QED BY <2>1, <2>2 DEF SeenIn
<1>8. ValidateDepthReferenceEvents(file).events = Those(events, IsReference)
  BY DEF ValidateDepthReferenceEvents, ReadSource
<1>9. Those(events, IsReference) = events
  BY <1>6 DEF Those
<1> QED BY <1>3, <1>7, <1>8, <1>9

\* The sources of 4.2C to 4.2E are the events the property names, for a valid file.
LEMMA SourcesAreSeen ==
  ASSUME Written, ValidSamples # << >>
  PROVE  /\ ValidSamples = clean /\ \A i \in DOMAIN clean : clean[i] \in CleanRow
         /\ \A s \in Source : /\ Events(Sources(clean))[s] = SeenIn(clean, feeds, s)
                              /\ SeenIn(clean, feeds, s) \in Seq(SeenRow)
<1>1. ValidateCleanSamples(clean).valid /\ ValidSamples = ValidateCleanSamples(clean).samples
  BY DEF ValidSamples
<1>2. clean \in Seq(SampleRow \cup {Torn}) /\ clean # NoFile
  BY <1>1 DEF Written, ValidateCleanSamples
<1>3. ValidSamples = clean /\ AllClean(clean) /\ clean \in Seq(SampleRow)
  BY <1>1, <1>2, ValidFile DEF AllClean
<1>4. \A i \in DOMAIN clean : clean[i] \in CleanRow
  BY <1>3 DEF AllClean, CleanRow
<1>5. ASSUME NEW s \in Source
      PROVE  /\ Events(Sources(clean))[s] = SeenIn(clean, feeds, s)
             /\ SeenIn(clean, feeds, s) \in Seq(SeenRow)
  <2>1. Events(Sources(clean))[s] = IF s = Depthmid THEN ValidateDepthReferenceEvents(clean).events
                                    ELSE ValidateReferenceEvents(feeds[s]).events
    BY DEF Events, Sources
  <2>2. CASE s = Depthmid
    BY <1>2, <1>3, <2>1, <2>2, DepthIsSeen
  <2>3. CASE s # Depthmid
    <3>1. s \in Feed
      BY <2>3 DEF Source
    <3>2. feeds[s] = NoFile \/ feeds[s] \in Seq(EventRow \cup {Torn})
      BY <3>1 DEF Written
    <3>3. /\ ValidateReferenceEvents(feeds[s]).events = Those(Lines(feeds[s]), IsReference)
          /\ Those(Lines(feeds[s]), IsReference) \in Seq(SeenRow)
      BY <3>2, FeedIsSeen
    <3> QED BY <2>1, <2>3, <3>3 DEF SeenIn
  <2> QED BY <2>2, <2>3
<1> QED BY <1>3, <1>4, <1>5

-----------------------------------------------------------------------------
(* The labels of 4.2B, 4.2C and 4.2D. *)

\* What ReferencesAreEarliest says of the rows of each of the programs.
TickersPoint(file, files, rows) ==
  \A i \in DOMAIN rows : PointsAtEarliest(rows[i].label, SeenIn(file, files, Quotes), LocalTime)

BenchmarkPoints(file, files, rows) ==
  \A i \in DOMAIN rows, s \in Source :
    PointsAtEarliest(rows[i].labels[s], SeenIn(file, files, s), LocalTime)

ProtocolPoints(file, files, rows) ==
  \A i \in DOMAIN rows, s \in Source :
    /\ PointsAtEarliest(rows[i][s].receive, SeenIn(file, files, s), LocalTime)
    /\ rows[i][s].exchange.eligible =>
         PointsAtEarliest(rows[i][s].exchange, SeenIn(file, files, s), ExchangeTime)

\* ReferencesAreEarliest, of the report and the labels of each program.
LEMMA ReferencesAreOfTheReport ==
  ReferencesAreEarliest <=>
    /\ Passed(BookTicker) => TickersPoint(report.clean, report.feeds, labels)
    /\ Reported(Benchmark) => BenchmarkPoints(report.clean, report.feeds, labels)
    /\ Reported(Protocol) => ProtocolPoints(report.clean, report.feeds, labels)
  BY DEF ReferencesAreEarliest, TickersPoint, BenchmarkPoints, ProtocolPoints, EventsSeen, SeenIn

\* The rows of 4.2B for references received in order,
LEMMA TickerRowsPoint ==
  ASSUME NEW samples, \A i \in DOMAIN samples : samples[i] \in CleanRow,
         NEW events \in Seq(SeenRow), Backwards(events) = 0
  PROVE  \A i \in DOMAIN samples :
           PointsAtEarliest(GenerateBookTickerRows(samples, events)[i].label, events, LocalTime)
<1> TAKE i \in DOMAIN samples
<1>1. Lists(events, Len(events), Range(events), LocalOf(events))
  BY ReceivedInOrder
<1>2. samples[i] \in CleanRow
  OBVIOUS
<1>3. PointsAtEarliest(BookTickerLabel(samples[i], events), events, LocalTime)
  BY <1>1, <1>2, ReceiveOrderPoints
<1>4. GenerateBookTickerRows(samples, events)[i].label = BookTickerLabel(samples[i], events)
  BY DEF GenerateBookTickerRows
<1> QED BY <1>3, <1>4

\* the rows of 4.2C for any references,
LEMMA BenchmarkRowsPoint ==
  ASSUME NEW samples, \A i \in DOMAIN samples : samples[i] \in CleanRow,
         NEW events, \A s \in Source : events[s] \in Seq(SeenRow)
  PROVE  \A i \in DOMAIN samples, s \in Source :
           PointsAtEarliest(GenerateBenchmarkRows(samples, events)[i].labels[s], events[s], LocalTime)
<1> TAKE i \in DOMAIN samples, s \in Source
<1> DEFINE R == SortedBy(events[s], Times(events[s]))
<1>1. samples[i] \in CleanRow /\ events[s] \in Seq(SeenRow)
  OBVIOUS
<1>2. Lists(R, Len(events[s]), Range(events[s]), LocalOf(events[s]))
  BY <1>1, SortedByReceipt
<1>3. GenerateBenchmarkRows(samples, events)[i].labels[s] = BuildReferenceLabel(samples[i], R)
  BY DEF GenerateBenchmarkRows
<1> HIDE DEF R
<1>4. PointsAtEarliest(BuildReferenceLabel(samples[i], R), events[s], LocalTime)
  BY <1>1, <1>2, ReceiveOrderPoints
<1> QED BY <1>3, <1>4

\* and the rows of 4.2D.
LEMMA ProtocolRowsPoint ==
  ASSUME NEW samples, \A i \in DOMAIN samples : samples[i] \in CleanRow,
         NEW events, \A s \in Source : events[s] \in Seq(SeenRow)
  PROVE  \A i \in DOMAIN samples, s \in Source :
           LET label == GenerateTimeProtocolRows(samples, events)[i][s]
           IN  /\ PointsAtEarliest(label.receive, events[s], LocalTime)
               /\ label.exchange.eligible => PointsAtEarliest(label.exchange, events[s], ExchangeTime)
<1> TAKE i \in DOMAIN samples, s \in Source
<1> DEFINE R == SortedBy(events[s], Times(events[s]))
           dated == Those(events[s], HasExchangeTime)
           D == SortedBy(dated, ExchangeTimes(dated))
           schema == TimestampSchema(samples, events)[s]
           label == GenerateTimeProtocolRows(samples, events)[i][s]
<1>1. samples[i] \in CleanRow /\ events[s] \in Seq(SeenRow)
  OBVIOUS
<1>2. Lists(R, Len(events[s]), Range(events[s]), LocalOf(events[s]))
  BY <1>1, SortedByReceipt
<1>3. \E n : Lists(D, n, Dated(events[s]), ExchangeOf(events[s]))
  BY <1>1, SortedByExchange
<1>4. /\ label.receive = BuildReceiveTimeLabel(samples[i], R)
      /\ label.exchange = BuildExchangeTimeLabel(samples[i], D, schema)
  BY DEF GenerateTimeProtocolRows
<1> HIDE DEF R, D, schema, label
<1>5. PointsAtEarliest(label.receive, events[s], LocalTime)
  BY <1>1, <1>2, <1>4, ReceiveOrderPoints
<1>6. label.exchange.eligible => PointsAtEarliest(label.exchange, events[s], ExchangeTime)
  BY <1>1, <1>3, <1>4, ExchangeOrderPoints
<1> QED BY <1>5, <1>6 DEF label

\* The references of 4.2B, when it passes: they were received in order.
LEMMA TickerRun ==
  ASSUME Written, RunBookTicker, report'.status = "pass"
  PROVE  TickersPoint(clean, feeds, labels')
<1> DEFINE samples == ValidSamples
           source == ValidateReferenceQuotes(feeds[Quotes])
           rows == GenerateBookTickerRows(samples, source.events)
<1>1. labels' = rows /\ report'.status = IF BookTickerPasses(samples, source, rows) THEN "pass" ELSE "fail"
  BY DEF RunBookTicker, Run
<1>2. samples # << >> /\ source.backwards = 0
  BY <1>1 DEF BookTickerPasses
<1>3. \A i \in DOMAIN samples : samples[i] \in CleanRow
  BY <1>2, SourcesAreSeen
<1>4. Quotes \in Feed /\ Quotes # Depthmid
  BY ReferenceAssumption DEF Quotes
<1>5. feeds[Quotes] = NoFile \/ feeds[Quotes] \in Seq(EventRow \cup {Torn})
  BY <1>4 DEF Written
<1>6. source.events = SeenIn(clean, feeds, Quotes) /\ source.events \in Seq(SeenRow)
  BY <1>4, <1>5, FeedIsSeen DEF SeenIn
<1>7. source.backwards = Backwards(source.events)
  BY DEF ValidateReferenceQuotes, ReadSource
<1>8. DOMAIN rows = DOMAIN samples
  BY DEF GenerateBookTickerRows
<1> HIDE DEF samples, source
<1>9. \A i \in DOMAIN samples : PointsAtEarliest(rows[i].label, source.events, LocalTime)
  BY <1>2, <1>3, <1>6, <1>7, TickerRowsPoint
<1> HIDE DEF rows
<1> QED BY <1>1, <1>6, <1>8, <1>9 DEF TickersPoint

\* A run of 4.2C, whether it passes or not.
LEMMA BenchmarkRun ==
  ASSUME Written, RunBenchmark
  PROVE  BenchmarkPoints(clean, feeds, labels')
<1> DEFINE samples == ValidSamples
           events == Events(Sources(samples))
           rows == GenerateBenchmarkRows(samples, events)
<1>1. labels' = rows
  BY DEF RunBenchmark, Run
<1>2. DOMAIN rows = DOMAIN samples
  BY DEF GenerateBenchmarkRows
<1>3. CASE samples = << >>
  <2> HIDE DEF rows
  <2> QED BY <1>1, <1>2, <1>3 DEF BenchmarkPoints
<1>4. CASE samples # << >>
  <2>1. /\ \A i \in DOMAIN samples : samples[i] \in CleanRow
        /\ \A s \in Source : events[s] = SeenIn(clean, feeds, s) /\ events[s] \in Seq(SeenRow)
    BY <1>4, SourcesAreSeen
  <2> HIDE DEF samples, events
  <2>2. \A i \in DOMAIN samples, s \in Source : PointsAtEarliest(rows[i].labels[s], events[s], LocalTime)
    BY <2>1, BenchmarkRowsPoint
  <2> HIDE DEF rows
  <2> QED BY <1>1, <1>2, <2>1, <2>2 DEF BenchmarkPoints
<1> QED BY <1>3, <1>4

\* A run of 4.2D, whether it passes or not.
LEMMA ProtocolRun ==
  ASSUME Written, RunProtocol
  PROVE  ProtocolPoints(clean, feeds, labels')
<1> DEFINE samples == ValidSamples
           events == Events(Sources(samples))
           rows == ProtocolRows(samples, events)
<1>1. labels' = rows
  BY DEF RunProtocol, Run
<1>2. CASE samples = << >>
  <2>1. rows = << >>
    BY <1>2 DEF ProtocolRows
  <2> HIDE DEF rows
  <2> QED BY <1>1, <2>1 DEF ProtocolPoints
<1>3. CASE samples # << >>
  <2>1. /\ \A i \in DOMAIN samples : samples[i] \in CleanRow
        /\ \A s \in Source : events[s] = SeenIn(clean, feeds, s) /\ events[s] \in Seq(SeenRow)
    BY <1>3, SourcesAreSeen
  <2> HIDE DEF samples, events
  <2>2. rows = GenerateTimeProtocolRows(samples, events)
    BY <1>3 DEF ProtocolRows
  <2>3. DOMAIN rows = DOMAIN samples
    BY <2>2 DEF GenerateTimeProtocolRows
  <2> HIDE DEF rows
  <2>4. \A i \in DOMAIN samples, s \in Source :
          /\ PointsAtEarliest(rows[i][s].receive, events[s], LocalTime)
          /\ rows[i][s].exchange.eligible => PointsAtEarliest(rows[i][s].exchange, events[s], ExchangeTime)
    BY <2>1, <2>2, ProtocolRowsPoint
  <2> QED BY <1>1, <2>1, <2>3, <2>4 DEF ProtocolPoints
<1> QED BY <1>2, <1>3

ReferenceInvariant == Written /\ ReferencesAreEarliest

\* Only the runs of 4.2B, 4.2C and 4.2D change their labels and reports.
LEMMA ReferenceInvariantStays ==
  ASSUME ReferenceInvariant, [Next]_vars
  PROVE  ReferenceInvariant'
<1> USE DEF ReferenceInvariant
<1>1. Written'
  BY WrittenStays
<1> DEFINE Tickers == Passed(BookTicker) => TickersPoint(report.clean, report.feeds, labels)
           Benchmarks == Reported(Benchmark) => BenchmarkPoints(report.clean, report.feeds, labels)
           Protocols == Reported(Protocol) => ProtocolPoints(report.clean, report.feeds, labels)
<1>2. Tickers /\ Benchmarks /\ Protocols
  BY ReferencesAreOfTheReport
<1> SUFFICES Tickers' /\ Benchmarks' /\ Protocols'
  BY <1>1, ReferencesAreOfTheReport, PTL
<1>3. CASE UNCHANGED <<program, labels, report>>
  BY <1>2, <1>3 DEF Passed, Reported
<1>4. ASSUME NEW p, NEW written, NEW status, NEW details, Run(p, written, status, details)
      PROVE  /\ program' = p /\ report'.clean = clean /\ report'.feeds = feeds /\ report'.status = status
             /\ (p # BookTicker => Tickers') /\ (p # Benchmark => Benchmarks') /\ (p # Protocol => Protocols')
  BY <1>4 DEF Run, Passed, Reported
<1>5. CASE RunBookTicker
  <2>1. /\ program' = BookTicker /\ report'.clean = clean /\ report'.feeds = feeds
        /\ Benchmarks' /\ Protocols'
    BY <1>4, <1>5, NamesDiffer DEF RunBookTicker
  <2>2. Tickers'
    <3> SUFFICES ASSUME Passed(BookTicker)' PROVE TickersPoint(report.clean, report.feeds, labels)'
      OBVIOUS
    <3>1. report'.status = "pass"
      BY DEF Passed
    <3>2. TickersPoint(clean, feeds, labels')
      BY <1>5, <3>1, TickerRun
    <3> QED BY <2>1, <3>2
  <2> QED BY <2>1, <2>2
<1>6. CASE RunBenchmark
  <2>1. /\ program' = Benchmark /\ report'.clean = clean /\ report'.feeds = feeds
        /\ Tickers' /\ Protocols'
    BY <1>4, <1>6, NamesDiffer DEF RunBenchmark
  <2>2. BenchmarkPoints(clean, feeds, labels')
    BY <1>6, BenchmarkRun
  <2> QED BY <2>1, <2>2
<1>7. CASE RunProtocol
  <2>1. /\ program' = Protocol /\ report'.clean = clean /\ report'.feeds = feeds
        /\ Tickers' /\ Benchmarks'
    BY <1>4, <1>7, NamesDiffer DEF RunProtocol
  <2>2. ProtocolPoints(clean, feeds, labels')
    BY <1>7, ProtocolRun
  <2> QED BY <2>1, <2>2
<1>8. CASE RunLabels
  BY <1>4, <1>8, NamesDiffer DEF RunLabels
<1>9. CASE RunCorrected
  BY <1>4, <1>9, NamesDiffer DEF RunCorrected
<1>10. CASE RunStreaming
  BY <1>4, <1>10, NamesDiffer DEF RunStreaming
<1>11. UNCHANGED <<program, labels, report>> \/ RunLabels \/ RunBookTicker \/ RunBenchmark
         \/ RunProtocol \/ RunCorrected \/ RunStreaming
  BY DEF Next, vars, AppendClean, AppendReference, MeasureClock, StepClock
<1> QED BY <1>3, <1>5, <1>6, <1>7, <1>8, <1>9, <1>10, <1>11

\* Whatever the feeds hold and in whatever order, a label made by 4.2C or 4.2D
\* is taken from the earliest reference at or after its target, by receive time
\* or by exchange time, and is valid exactly when that one is not too late; so
\* is a label of a passing 4.2B, which does not sort
\* (build_reference_label, build_receive_time_label, build_exchange_time_label,
\* _bookticker_label).
THEOREM ResearchReferencesAreEarliest == Spec => []ReferencesAreEarliest
<1>1. Init => ReferenceInvariant
  <2>1. Init => Written
    BY LabelsInvariantStarts DEF LabelsInvariant
  <2>2. Init => ~Passed(BookTicker) /\ ~Reported(Benchmark) /\ ~Reported(Protocol)
    BY DEF Init, Reported, Passed
  <2> QED BY <2>1, <2>2, ReferencesAreOfTheReport DEF ReferenceInvariant
<1>2. ReferenceInvariant /\ [Next]_vars => ReferenceInvariant'
  BY ReferenceInvariantStays
<1>3. ReferenceInvariant => ReferencesAreEarliest
  BY DEF ReferenceInvariant
<1> QED BY <1>1, <1>2, <1>3, PTL DEF Spec

-----------------------------------------------------------------------------
(* Lists that grow line by line: what a pass over a file has after a prefix. *)

\* Two passes that start alike and step alike end alike.
LEMMA SameFold ==
  ASSUME NEW n \in Nat, NEW f, NEW g, f[0] = g[0], \A k \in 1 .. n : f[k - 1] = g[k - 1] => f[k] = g[k]
  PROVE  f[n] = g[n]
<1> DEFINE bad == {m \in Nat : m <= n /\ f[m] # g[m]}
<1> SUFFICES ASSUME bad # {} PROVE FALSE
  OBVIOUS
<1>1. PICK m \in bad : \A j \in bad : m <= j
  <2>1. bad \in SUBSET Nat
    OBVIOUS
  <2> HIDE DEF bad
  <2> QED BY <2>1, LeastOf
<1>2. m \in Nat /\ m <= n /\ f[m] # g[m]
  BY <1>1
<1>3. m # 0
  BY <1>2
<1>4. m - 1 \in Nat /\ m - 1 <= n /\ m - 1 < m /\ m \in 1 .. n
  BY <1>2, <1>3
<1>5. m - 1 \notin bad
  <2> HIDE DEF bad
  <2> QED BY <1>1, <1>2, <1>4
<1>6. f[m - 1] = g[m - 1]
  BY <1>4, <1>5
<1> QED BY <1>2, <1>4, <1>6

\* What a list is after one more element.
LEMMA Appended ==
  ASSUME NEW S, NEW s \in Seq(S), NEW x \in S
  PROVE  /\ Append(s, x) \in Seq(S) /\ Append(s, x) # << >>
         /\ Len(s) \in Nat /\ Len(Append(s, x)) = Len(s) + 1
         /\ DOMAIN s = 1 .. Len(s) /\ DOMAIN Append(s, x) = 1 .. Len(s) + 1
         /\ Append(s, x)[Len(s) + 1] = x
         /\ \A k \in 1 .. Len(s) : Append(s, x)[k] = s[k] /\ s[k] \in S
  OBVIOUS

\* A prefix is the one before and an element more.
LEMMA PrefixGrows ==
  ASSUME NEW S, NEW s \in Seq(S)
  PROVE  /\ SubSeq(s, 1, 0) = << >> /\ SubSeq(s, 1, Len(s)) = s
         /\ \A k \in 1 .. Len(s) :
              /\ SubSeq(s, 1, k - 1) \in Seq(S) /\ s[k] \in S
              /\ SubSeq(s, 1, k) = Append(SubSeq(s, 1, k - 1), s[k])
<1>1. Len(s) \in Nat /\ SubSeq(s, 1, 0) = << >> /\ SubSeq(s, 1, Len(s)) = s
  OBVIOUS
<1>2. ASSUME NEW k \in 1 .. Len(s)
      PROVE  /\ SubSeq(s, 1, k - 1) \in Seq(S) /\ s[k] \in S
             /\ SubSeq(s, 1, k) = Append(SubSeq(s, 1, k - 1), s[k])
  <2>1. s[k] \in S
    OBVIOUS
  <2>2. SubSeq(s, 1, k - 1) \in Seq(S)
    OBVIOUS
  <2>3. SubSeq(s, 1, k) = Append(SubSeq(s, 1, k - 1), s[k])
    OBVIOUS
  <2> QED BY <2>1, <2>2, <2>3
<1> QED BY <1>1, <1>2

\* A filter of a list with one more element.
LEMMA PickedMore ==
  ASSUME NEW S, NEW s \in Seq(S), NEW x \in S, NEW a, NEW b, \A k \in 1 .. Len(s) : k \in a <=> k \in b
  PROVE  Picked(Append(s, x), b) = IF Len(s) + 1 \in b THEN Append(Picked(s, a), x) ELSE Picked(s, a)
<1> DEFINE n == Len(s)
           t == Append(s, x)
<1>1. n \in Nat /\ Len(t) = n + 1 /\ t[n + 1] = x /\ \A k \in 1 .. n : t[k] = s[k]
  BY Appended
<1>2. \A k \in 1 .. n : k \in a <=> k \in b
  OBVIOUS
<1>3. PICK f : f = [k \in 0 .. n |-> Take(s, a, f, k)] /\ Picked(s, a) = f[n]
  BY <1>1, PickedIsTaken
<1> HIDE DEF t
<1>4. PICK g : g = [k \in 0 .. n + 1 |-> Take(t, b, g, k)] /\ Picked(t, b) = g[n + 1]
  <2>1. Len(t) \in Nat
    BY <1>1
  <2>2. \E g : g = [k \in 0 .. Len(t) |-> Take(t, b, g, k)] /\ Picked(t, b) = g[Len(t)]
    BY <2>1, PickedIsTaken
  <2> QED BY <1>1, <2>2
<1> HIDE DEF n
<1>5. f[0] = Take(s, a, f, 0) /\ g[0] = Take(t, b, g, 0) /\ g[n + 1] = Take(t, b, g, n + 1)
  <2>1. 0 \in 0 .. n /\ 0 \in 0 .. n + 1 /\ n + 1 \in 0 .. n + 1
    BY <1>1
  <2> QED BY <1>3, <1>4, <2>1
<1>6. \A k \in 1 .. n : f[k - 1] = g[k - 1] => f[k] = g[k]
  <2> SUFFICES ASSUME NEW k \in 1 .. n, f[k - 1] = g[k - 1] PROVE f[k] = g[k]
    OBVIOUS
  <2>1. f[k] = Take(s, a, f, k) /\ g[k] = Take(t, b, g, k) /\ k # 0
    <3>1. k \in 0 .. n /\ k \in 0 .. n + 1 /\ k # 0
      BY <1>1
    <3> QED BY <1>3, <1>4, <3>1
  <2> QED BY <1>1, <1>2, <2>1 DEF Take
<1>7. f[n] = g[n]
  <2>1. f[0] = g[0]
    BY <1>5 DEF Take
  <2> QED BY <1>1, <1>6, <2>1, SameFold
<1>8. n + 1 # 0 /\ (n + 1) - 1 = n
  BY <1>1
<1>9. g[n + 1] = IF n + 1 \in b THEN Append(f[n], x) ELSE f[n]
  BY <1>1, <1>5, <1>7, <1>8 DEF Take
<1> QED BY <1>3, <1>4, <1>9 DEF n, t

\* A count of positions, with one more position.
LEMMA CountMore ==
  ASSUME NEW n \in Nat, NEW a, NEW b, a \subseteq 1 .. n, b \subseteq 1 .. n + 1,
         \A k \in 1 .. n : k \in a <=> k \in b
  PROVE  /\ IsFiniteSet(a) /\ Cardinality(a) \in Nat
         /\ Cardinality(b) = IF n + 1 \in b THEN Cardinality(a) + 1 ELSE Cardinality(a)
<1>1. IsFiniteSet(a) /\ Cardinality(a) \in Nat
  <2>1. IsFiniteSet(1 .. n)
    BY FS_Interval
  <2>2. IsFiniteSet(a)
    BY <2>1, FS_Subset
  <2> QED BY <2>2, FS_CardinalityType
<1>2. n + 1 \notin a
  OBVIOUS
<1>3. \A k \in b : k \in a \/ k = n + 1
  <2> TAKE k \in b
  <2>1. k \in 1 .. n + 1
    OBVIOUS
  <2>2. k \in 1 .. n \/ k = n + 1
    BY <2>1
  <2> QED BY <2>2
<1>4. \A k \in a : k \in b
  <2> TAKE k \in a
  <2>1. k \in 1 .. n
    OBVIOUS
  <2> QED BY <2>1
<1>5. CASE n + 1 \in b
  <2>1. b = a \cup {n + 1}
    BY <1>3, <1>4, <1>5
  <2> QED BY <1>1, <1>2, <1>5, <2>1, FS_AddElement
<1>6. CASE n + 1 \notin b
  <2>1. b = a
    BY <1>3, <1>4, <1>6
  <2> QED BY <1>1, <1>6, <2>1
<1> QED BY <1>1, <1>5, <1>6

-----------------------------------------------------------------------------
(* The statistics of a feed, kept event by event. *)

\* A reference received after others adds a gap.
LEMMA GapsMore ==
  ASSUME NEW T \in Seq(SeenRow), NEW x \in SeenRow
  PROVE  /\ Gaps(Times(T)) \in Seq(Int)
         /\ T = << >> => Gaps(Times(T)) = << >> /\ Gaps(Times(Append(T, x))) = << >>
         /\ T # << >> => /\ x.ts - T[Len(T)].ts \in Int
                         /\ Gaps(Times(Append(T, x))) = Append(Gaps(Times(T)), x.ts - T[Len(T)].ts)
<1> DEFINE n == Len(T)
           U == Append(T, x)
           d == x.ts - T[n].ts
<1>1. /\ n \in Nat /\ Len(U) = n + 1 /\ DOMAIN T = 1 .. n /\ DOMAIN U = 1 .. n + 1
      /\ U[n + 1] = x /\ \A k \in 1 .. n : U[k] = T[k] /\ T[k] \in SeenRow
  BY Appended
<1>2. x.ts \in Int /\ \A k \in 1 .. n : T[k].ts \in Int
  BY <1>1, SeenTimes
<1>3. T = << >> <=> n = 0
  OBVIOUS
<1>4. U # << >>
  BY Appended
<1> HIDE DEF n, U
<1>5. /\ Times(T) = [k \in 1 .. n |-> T[k].ts] /\ Times(U) = [k \in 1 .. n + 1 |-> U[k].ts]
  BY <1>1 DEF Times
<1>6. Len(Times(T)) = n /\ Len(Times(U)) = n + 1 /\ Times(U) # << >>
  BY <1>1, <1>5
<1>7. Times(T) = << >> <=> n = 0
  BY <1>1, <1>5
<1>8. Gaps(Times(U)) = [k \in 1 .. (n + 1) - 1 |-> U[k + 1].ts - U[k].ts]
  <2>1. \A k \in 1 .. (n + 1) - 1 : Times(U)[k] = U[k].ts /\ Times(U)[k + 1] = U[k + 1].ts
    BY <1>1, <1>5
  <2> QED BY <1>6, <2>1 DEF Gaps
<1>9. CASE n = 0
  <2>1. Gaps(Times(T)) = << >> /\ << >> \in Seq(Int)
    BY <1>7, <1>9 DEF Gaps
  <2>2. Gaps(Times(U)) = << >>
    BY <1>8, <1>9
  <2> QED BY <1>3, <1>9, <2>1, <2>2 DEF U
<1>10. CASE n # 0
  <2>1. Gaps(Times(T)) = [k \in 1 .. n - 1 |-> T[k + 1].ts - T[k].ts]
    <3>1. \A k \in 1 .. n - 1 : Times(T)[k] = T[k].ts /\ Times(T)[k + 1] = T[k + 1].ts
      BY <1>1, <1>5
    <3> QED BY <1>6, <1>7, <1>10, <3>1 DEF Gaps
  <2>2. n - 1 \in Nat /\ n \in 1 .. n /\ (n + 1) - 1 = n /\ (n - 1) + 1 = n
    BY <1>1, <1>10
  <2>3. Gaps(Times(T)) \in Seq(Int) /\ Len(Gaps(Times(T))) = n - 1
    <3>1. \A k \in 1 .. n - 1 : T[k + 1].ts - T[k].ts \in Int
      <4> TAKE k \in 1 .. n - 1
      <4>1. k \in 1 .. n /\ k + 1 \in 1 .. n
        BY <1>1
      <4>2. T[k].ts \in Int /\ T[k + 1].ts \in Int
        BY <1>2, <4>1
      <4> QED BY <4>2
    <3> DEFINE m == n - 1
    <3>2. m \in Nat /\ \A k \in 1 .. m : T[k + 1].ts - T[k].ts \in Int
      BY <2>2, <3>1
    <3> HIDE DEF m
    <3>3. Len([k \in 1 .. m |-> T[k + 1].ts - T[k].ts]) = m
      BY <3>2
    <3>4. [k \in 1 .. m |-> T[k + 1].ts - T[k].ts] \in Seq(Int)
      BY <3>2
    <3> QED BY <2>1, <3>3, <3>4 DEF m
  <2>4. d \in Int
    BY <1>2, <2>2
  <2> DEFINE a == Append(Gaps(Times(T)), d)
             b == Gaps(Times(U))
  <2>5. a \in Seq(Int) /\ Len(a) = n /\ a[n] = d /\ \A k \in 1 .. n - 1 : a[k] = Gaps(Times(T))[k]
    <3>1. Len(Gaps(Times(T))) + 1 = n
      BY <2>2, <2>3
    <3> HIDE DEF d
    <3> QED BY <2>3, <2>4, <3>1, Appended
  <2>6. \A k \in 1 .. n : a[k] = b[k]
    <3> TAKE k \in 1 .. n
    <3>1. b[k] = U[k + 1].ts - U[k].ts
      BY <1>8, <2>2
    <3>2. CASE k = n
      BY <1>1, <2>5, <3>1, <3>2
    <3>3. CASE k # n
      <4>1. k \in 1 .. n - 1 /\ k + 1 \in 1 .. n
        BY <1>1, <3>3
      <4>2. a[k] = T[k + 1].ts - T[k].ts
        BY <2>1, <2>5, <4>1
      <4> QED BY <1>1, <3>1, <4>1, <4>2
    <3> QED BY <3>2, <3>3
  <2>7. b = [k \in 1 .. n |-> b[k]] /\ a = [k \in 1 .. n |-> a[k]]
    <3>1. b = [k \in 1 .. n |-> b[k]]
      BY <1>8, <2>2
    <3>2. a = [k \in 1 .. n |-> a[k]]
      <4> HIDE DEF a
      <4> QED BY <2>5
    <3> QED BY <3>1, <3>2
  <2>8. a = b
    <3> HIDE DEF a, b
    <3> QED BY <2>6, <2>7
  <2> QED BY <1>3, <1>10, <2>3, <2>4, <2>8 DEF n, U
<1> QED BY <1>9, <1>10

\* The gaps that count are those that are not backwards.
LEMMA ForwardMore ==
  ASSUME NEW g \in Seq(Int), NEW d \in Int
  PROVE  /\ Those(g, NonNegative) \in Seq(Nat)
         /\ Those(Append(g, d), NonNegative) = IF d >= 0 THEN Append(Those(g, NonNegative), d)
                                               ELSE Those(g, NonNegative)
<1> DEFINE h == Append(g, d)
           a == {k \in DOMAIN g : NonNegative(g[k])}
           b == {k \in DOMAIN h : NonNegative(h[k])}
<1>1. /\ Len(g) \in Nat /\ DOMAIN g = 1 .. Len(g) /\ DOMAIN h = 1 .. Len(g) + 1
      /\ h[Len(g) + 1] = d /\ \A k \in 1 .. Len(g) : h[k] = g[k] /\ g[k] \in Int
  BY Appended
<1>2. (\A k \in 1 .. Len(g) : k \in a <=> k \in b) /\ (Len(g) + 1 \in b <=> d >= 0)
  <2> HIDE DEF h
  <2> QED BY <1>1 DEF NonNegative
<1>3. Those(g, NonNegative) = Picked(g, a) /\ Those(h, NonNegative) = Picked(h, b)
  BY DEF Those
<1>4. Picked(g, a) \in Seq(Nat)
  <2>1. \A k \in 1 .. Len(g) : k \in a => g[k] \in Nat
    BY <1>1 DEF NonNegative
  <2> HIDE DEF a
  <2> QED BY <1>1, <2>1, PickedFrom
<1> HIDE DEF a, b
<1>5. Picked(h, b) = IF Len(g) + 1 \in b THEN Append(Picked(g, a), d) ELSE Picked(g, a)
  BY <1>2, PickedMore
<1> QED BY <1>2, <1>3, <1>4, <1>5

\* The sum of the overruns exists, for every list of gaps,
LEMMA OverrunGoesOn ==
  ASSUME NEW s \in Seq(Nat), NEW n \in 0 .. Len(s)
  PROVE  \E f : /\ f = [k \in 0 .. n |-> IF k = 0 THEN 0 ELSE Overrun(f[k - 1], s[k])]
                /\ \A k \in 0 .. n : f[k] \in Nat
<1> DEFINE Sums(f, m) == /\ f = [k \in 0 .. m |-> IF k = 0 THEN 0 ELSE Overrun(f[k - 1], s[k])]
                         /\ \A k \in 0 .. m : f[k] \in Nat
           bad == {m \in Nat : m <= Len(s) /\ ~ \E f : Sums(f, m)}
<1> SUFFICES ASSUME bad # {} PROVE FALSE
  <2>1. n \in Nat /\ n <= Len(s)
    OBVIOUS
  <2> SUFFICES ASSUME bad = {} PROVE \E f : Sums(f, n)
    OBVIOUS
  <2> HIDE DEF Sums
  <2> QED BY <2>1
<1>1. PICK m \in bad : \A j \in bad : m <= j
  <2>1. bad \in SUBSET Nat
    OBVIOUS
  <2> HIDE DEF bad
  <2> QED BY <2>1, LeastOf
<1>2. m \in Nat /\ m <= Len(s) /\ ~ \E f : Sums(f, m)
  BY <1>1
<1>3. CASE m = 0
  <2> DEFINE f == [k \in 0 .. 0 |-> 0]
  <2>1. Sums(f, 0)
    OBVIOUS
  <2> QED BY <1>2, <1>3, <2>1
<1>4. CASE m # 0
  <2>1. m - 1 \in Nat /\ m - 1 <= Len(s) /\ m - 1 < m /\ m \in 1 .. Len(s)
    BY <1>2, <1>4
  <2>2. m - 1 \notin bad
    <3> HIDE DEF bad
    <3> QED BY <1>1, <1>2, <2>1
  <2>3. PICK f : Sums(f, m - 1)
    <3> HIDE DEF Sums
    <3> QED BY <2>1, <2>2
  <2> DEFINE last == Overrun(f[m - 1], s[m])
             g == [k \in 0 .. m |-> IF k = m THEN last ELSE f[k]]
  <2>4. last \in Nat
    <3>1. f[m - 1] \in Nat /\ s[m] \in Nat
      BY <2>1, <2>3
    <3>2. s[m] > MaxReferenceGap => s[m] - MaxReferenceGap \in Nat
      BY <3>1, ReferenceAssumption
    <3> QED BY <3>1, <3>2 DEF Overrun
  <2>5. \A k \in 0 .. m : k # m => k \in 0 .. m - 1 /\ g[k] = f[k]
    BY <2>1
  <2>6. \A k \in 0 .. m : g[k] = IF k = 0 THEN 0 ELSE Overrun(g[k - 1], s[k])
    <3> TAKE k \in 0 .. m
    <3>1. k # 0 => k - 1 \in 0 .. m - 1 /\ k - 1 # m /\ k - 1 \in 0 .. m
      BY <2>1
    <3>2. k # 0 => g[k - 1] = f[k - 1]
      BY <2>5, <3>1
    <3>3. CASE k = m
      <4>1. g[k] = last
        BY <3>3
      <4> HIDE DEF g
      <4> QED BY <1>4, <3>2, <3>3, <4>1
    <3>4. CASE k # m
      <4>1. k \in 0 .. m - 1 /\ g[k] = f[k]
        BY <2>5, <3>4
      <4>2. f[k] = IF k = 0 THEN 0 ELSE Overrun(f[k - 1], s[k])
        BY <2>3, <4>1
      <4> HIDE DEF g
      <4> QED BY <3>2, <4>1, <4>2
    <3> QED BY <3>3, <3>4
  <2>7. \A k \in 0 .. m : g[k] \in Nat
    <3> TAKE k \in 0 .. m
    <3>1. k = m \/ k \in 0 .. m - 1
      BY <2>1
    <3> HIDE DEF last
    <3> QED BY <2>3, <2>4, <3>1
  <2>8. g = [k \in 0 .. m |-> g[k]]
    OBVIOUS
  <2> HIDE DEF g
  <2>9. Sums(g, m)
    BY <2>6, <2>7, <2>8
  <2> QED BY <1>2, <2>9
<1> QED BY <1>3, <1>4

\* and grows gap by gap.
LEMMA OverrunMore ==
  ASSUME NEW s \in Seq(Nat), NEW d \in Nat
  PROVE  /\ Folded(Overrun, 0, << >>) = 0
         /\ Folded(Overrun, 0, s) \in Nat
         /\ Folded(Overrun, 0, Append(s, d)) = Overrun(Folded(Overrun, 0, s), d)
<1>1. ASSUME NEW t \in Seq(Nat)
      PROVE  \E f : /\ f = [k \in 0 .. Len(t) |-> IF k = 0 THEN 0 ELSE Overrun(f[k - 1], t[k])]
                    /\ Folded(Overrun, 0, t) = f[Len(t)]
                    /\ f[Len(t)] \in Nat
  <2> DEFINE after == CHOOSE f : f = [k \in 0 .. Len(t) |-> IF k = 0 THEN 0 ELSE Overrun(f[k - 1], t[k])]
  <2>1. Len(t) \in 0 .. Len(t)
    OBVIOUS
  <2>2. PICK f : /\ f = [k \in 0 .. Len(t) |-> IF k = 0 THEN 0 ELSE Overrun(f[k - 1], t[k])]
                 /\ \A k \in 0 .. Len(t) : f[k] \in Nat
    BY <2>1, OverrunGoesOn
  <2>3. after = [k \in 0 .. Len(t) |-> IF k = 0 THEN 0 ELSE Overrun(after[k - 1], t[k])]
    BY <2>2
  <2>4. Folded(Overrun, 0, t) = after[Len(t)]
    BY DEF Folded
  <2> HIDE DEF after
  <2>5. after[Len(t)] = f[Len(t)]
    <3>1. Len(t) \in Nat /\ 0 \in 0 .. Len(t)
      OBVIOUS
    <3>2. after[0] = 0 /\ f[0] = 0
      BY <2>2, <2>3, <3>1
    <3>3. \A k \in 1 .. Len(t) : k \in 0 .. Len(t) /\ k # 0
      OBVIOUS
    <3>4. \A k \in 1 .. Len(t) : after[k] = Overrun(after[k - 1], t[k]) /\ f[k] = Overrun(f[k - 1], t[k])
      BY <2>2, <2>3, <3>3
    <3>5. \A k \in 1 .. Len(t) : after[k - 1] = f[k - 1] => after[k] = f[k]
      BY <3>4
    <3> QED BY <3>1, <3>2, <3>5, SameFold
  <2>6. f[Len(t)] \in Nat
    BY <2>1, <2>2
  <2> QED BY <2>3, <2>4, <2>5, <2>6
<1>2. Folded(Overrun, 0, << >>) = 0
  <2>1. << >> \in Seq(Nat) /\ Len(<< >>) = 0 /\ 0 \in 0 .. 0
    OBVIOUS
  <2>2. PICK f : /\ f = [k \in 0 .. Len(<< >>) |-> IF k = 0 THEN 0 ELSE Overrun(f[k - 1], << >>[k])]
                 /\ Folded(Overrun, 0, << >>) = f[Len(<< >>)]
    BY <1>1, <2>1
  <2>3. f[0] = 0
    BY <2>1, <2>2
  <2> QED BY <2>1, <2>2, <2>3
<1> DEFINE n == Len(s)
           t == Append(s, d)
<1>3. n \in Nat /\ t \in Seq(Nat) /\ Len(t) = n + 1 /\ t[n + 1] = d /\ \A k \in 1 .. n : t[k] = s[k]
  BY Appended
<1>4. PICK f : /\ f = [k \in 0 .. n |-> IF k = 0 THEN 0 ELSE Overrun(f[k - 1], s[k])]
               /\ Folded(Overrun, 0, s) = f[n] /\ f[n] \in Nat
  BY <1>1
<1> HIDE DEF t
<1>5. PICK g : /\ g = [k \in 0 .. n + 1 |-> IF k = 0 THEN 0 ELSE Overrun(g[k - 1], t[k])]
               /\ Folded(Overrun, 0, t) = g[n + 1]
  <2>1. \E g : /\ g = [k \in 0 .. Len(t) |-> IF k = 0 THEN 0 ELSE Overrun(g[k - 1], t[k])]
               /\ Folded(Overrun, 0, t) = g[Len(t)]
    BY <1>1, <1>3
  <2> QED BY <1>3, <2>1
<1> HIDE DEF n
<1>6. f[n] = g[n]
  <2>1. 0 \in 0 .. n /\ 0 \in 0 .. n + 1 /\ \A k \in 1 .. n : k \in 0 .. n /\ k \in 0 .. n + 1 /\ k # 0
    BY <1>3
  <2>2. f[0] = 0 /\ g[0] = 0
    BY <1>4, <1>5, <2>1
  <2>3. \A k \in 1 .. n : f[k] = Overrun(f[k - 1], s[k]) /\ g[k] = Overrun(g[k - 1], t[k])
    BY <1>4, <1>5, <2>1
  <2>4. \A k \in 1 .. n : f[k - 1] = g[k - 1] => f[k] = g[k]
    BY <1>3, <2>3
  <2> QED BY <1>3, <2>2, <2>4, SameFold
<1>7. g[n + 1] = Overrun(g[n], d)
  <2>1. n + 1 \in 0 .. n + 1 /\ n + 1 # 0 /\ (n + 1) - 1 = n
    BY <1>3
  <2> QED BY <1>3, <1>5, <2>1
<1> QED BY <1>2, <1>4, <1>5, <1>6, <1>7 DEF n, t

\* The maximum is the element that is not below any other.
LEMMA MaxIs ==
  ASSUME NEW S, S \subseteq Int, NEW m \in S, \A y \in S : m >= y
  PROVE  Max(S) = m
<1>1. \A z \in S : (\A y \in S : z >= y) => z = m
  OBVIOUS
<1> QED BY <1>1 DEF Max

\* The gaps of a feed that are not backwards.
Forward(T) == Those(Gaps(Times(T)), NonNegative)

\* One more reference adds its gap to them, unless it is backwards.
LEMMA ForwardGrows ==
  ASSUME NEW T \in Seq(SeenRow), NEW x \in SeenRow
  PROVE  LET d == x.ts - T[Len(T)].ts
         IN  /\ Forward(T) \in Seq(Nat)
             /\ T = << >> => Forward(T) = << >>
             /\ T # << >> => d \in Int
             /\ Forward(Append(T, x)) = IF T # << >> /\ d >= 0 THEN Append(Forward(T), d) ELSE Forward(T)
<1> DEFINE d == x.ts - T[Len(T)].ts
<1>1. Gaps(Times(T)) \in Seq(Int)
  BY GapsMore
<1>2. Forward(T) \in Seq(Nat)
  <2>1. 0 \in Int
    OBVIOUS
  <2> QED BY <1>1, <2>1, ForwardMore DEF Forward
<1>3. CASE T = << >>
  <2>1. Those(<< >>, NonNegative) = << >>
    BY NothingPicked DEF Those
  <2>2. Gaps(Times(T)) = << >> /\ Gaps(Times(Append(T, x))) = << >>
    BY <1>3, GapsMore
  <2> QED BY <1>2, <1>3, <2>1, <2>2 DEF Forward
<1>4. CASE T # << >>
  <2>1. d \in Int /\ Gaps(Times(Append(T, x))) = Append(Gaps(Times(T)), d)
    BY <1>4, GapsMore
  <2> HIDE DEF d
  <2>2. Forward(Append(T, x)) = IF d >= 0 THEN Append(Forward(T), d) ELSE Forward(T)
    BY <1>1, <2>1, ForwardMore DEF Forward
  <2> QED BY <1>2, <1>4, <2>1, <2>2 DEF d
<1> QED BY <1>3, <1>4

\* How many are too wide, and by how much.
Wide(gaps) == {k \in DOMAIN gaps : gaps[k] > MaxReferenceGap}

LEMMA WideMore ==
  ASSUME NEW s \in Seq(Nat), NEW d \in Nat
  PROVE  /\ Cardinality(Wide(s)) \in Nat
         /\ Cardinality(Wide(Append(s, d))) = IF d > MaxReferenceGap THEN Cardinality(Wide(s)) + 1
                                              ELSE Cardinality(Wide(s))
<1> DEFINE t == Append(s, d)
           n == Len(s)
<1>1. /\ n \in Nat /\ DOMAIN s = 1 .. n /\ DOMAIN t = 1 .. n + 1
      /\ t[n + 1] = d /\ \A k \in 1 .. n : t[k] = s[k]
  BY Appended
<1> HIDE DEF n, t
<1>2. /\ Wide(s) \subseteq 1 .. n /\ Wide(t) \subseteq 1 .. n + 1
      /\ \A k \in 1 .. n : k \in Wide(s) <=> k \in Wide(t)
      /\ n + 1 \in Wide(t) <=> d > MaxReferenceGap
  BY <1>1 DEF Wide
<1> QED BY <1>1, <1>2, CountMore DEF t

\* The references that were received before the one in front of them.
LEMMA BackwardsMore ==
  ASSUME NEW T \in Seq(SeenRow), NEW x \in SeenRow
  PROVE  /\ Backwards(T) \in Nat
         /\ Backwards(Append(T, x)) = IF T # << >> /\ x.ts < T[Len(T)].ts THEN Backwards(T) + 1
                                      ELSE Backwards(T)
<1> DEFINE n == Len(T)
           U == Append(T, x)
           a == {k \in 1 .. n - 1 : T[k + 1].ts < T[k].ts}
           b == {k \in 1 .. (n + 1) - 1 : U[k + 1].ts < U[k].ts}
<1>1. n \in Nat /\ Len(U) = n + 1 /\ U[n + 1] = x /\ \A k \in 1 .. n : U[k] = T[k]
  BY Appended
<1>2. Backwards(T) = Cardinality(a) /\ Backwards(U) = Cardinality(b)
  BY <1>1 DEF Backwards
<1>3. CASE n = 0
  <2>1. a = {} /\ b = {} /\ T = << >>
    BY <1>3
  <2>2. Cardinality({}) = 0
    BY FS_EmptySet
  <2> QED BY <1>2, <2>1, <2>2
<1>4. CASE n # 0
  <2> DEFINE m == n - 1
  <2>1. m \in Nat /\ m + 1 = n /\ (n + 1) - 1 = m + 1 /\ T # << >> /\ n \in 1 .. n
    BY <1>1, <1>4
  <2> HIDE DEF U
  <2>2. a \subseteq 1 .. m /\ b \subseteq 1 .. m + 1
    BY <2>1
  <2>3. \A k \in 1 .. m : k \in a <=> k \in b
    <3> TAKE k \in 1 .. m
    <3>1. k \in 1 .. n /\ k + 1 \in 1 .. n /\ k \in 1 .. (n + 1) - 1
      BY <1>1, <2>1
    <3>2. U[k] = T[k] /\ U[k + 1] = T[k + 1]
      BY <1>1, <3>1
    <3> QED BY <3>1, <3>2
  <2>4. m + 1 \in b <=> x.ts < T[n].ts
    <3>1. U[(m + 1) + 1] = x /\ U[m + 1] = T[n] /\ m + 1 \in 1 .. (n + 1) - 1
      BY <1>1, <2>1
    <3> QED BY <3>1
  <2> HIDE DEF a, b, m
  <2>5. Cardinality(a) \in Nat /\ Cardinality(b) = IF m + 1 \in b THEN Cardinality(a) + 1 ELSE Cardinality(a)
    BY <2>1, <2>2, <2>3, CountMore
  <2> QED BY <1>2, <2>1, <2>4, <2>5 DEF U
<1> QED BY <1>3, <1>4

\* The references that have an exchange time.
DatedAt(T) == {k \in DOMAIN T : HasExchangeTime(T[k])}

LEMMA DatedMore ==
  ASSUME NEW T \in Seq(SeenRow), NEW x \in SeenRow
  PROVE  /\ Cardinality(DatedAt(T)) \in Nat
         /\ Cardinality(DatedAt(Append(T, x))) = IF HasExchangeTime(x) THEN Cardinality(DatedAt(T)) + 1
                                                 ELSE Cardinality(DatedAt(T))
<1> DEFINE U == Append(T, x)
           n == Len(T)
<1>1. /\ n \in Nat /\ DOMAIN T = 1 .. n /\ DOMAIN U = 1 .. n + 1
      /\ U[n + 1] = x /\ \A k \in 1 .. n : U[k] = T[k]
  BY Appended
<1> HIDE DEF n, U
<1>2. /\ DatedAt(T) \subseteq 1 .. n /\ DatedAt(U) \subseteq 1 .. n + 1
      /\ \A k \in 1 .. n : k \in DatedAt(T) <=> k \in DatedAt(U)
      /\ n + 1 \in DatedAt(U) <=> HasExchangeTime(x)
  BY <1>1 DEF DatedAt
<1> QED BY <1>1, <1>2, CountMore DEF U

\* The latest receive time.
Latest(T) == IF T = << >> THEN NoValue ELSE Max({T[k].ts : k \in DOMAIN T})

LEMMA LatestMore ==
  ASSUME NEW T \in Seq(SeenRow), NEW x \in SeenRow
  PROVE  /\ T # << >> => Latest(T) # NoValue
         /\ Latest(Append(T, x)) = IF T = << >> THEN x.ts ELSE Max({Latest(T), x.ts})
<1> DEFINE n == Len(T)
           U == Append(T, x)
           A == {T[k].ts : k \in DOMAIN T}
           B == {U[k].ts : k \in DOMAIN U}
<1>1. /\ n \in Nat /\ U # << >> /\ DOMAIN T = 1 .. n /\ DOMAIN U = 1 .. n + 1
      /\ U[n + 1] = x /\ \A k \in 1 .. n : U[k] = T[k] /\ T[k] \in SeenRow
  BY Appended
<1>2. x.ts \in Int /\ \A k \in 1 .. n : T[k].ts \in Int
  BY <1>1, SeenTimes
<1>3. B = A \cup {x.ts}
  <2> HIDE DEF U, n
  <2>1. \A k \in 1 .. n + 1 : k \in 1 .. n \/ k = n + 1
    BY <1>1
  <2>2. \A k \in 1 .. n : k \in 1 .. n + 1
    BY <1>1
  <2>3. n + 1 \in 1 .. n + 1
    BY <1>1
  <2>4. \A y \in B : y \in A \cup {x.ts}
    BY <1>1, <2>1
  <2>5. \A y \in A : y \in B
    BY <1>1, <2>2
  <2>6. x.ts \in B
    BY <1>1, <2>3
  <2> QED BY <2>4, <2>5, <2>6
<1>4. Latest(U) = Max(B)
  BY <1>1 DEF Latest
<1>5. CASE T = << >>
  <2>1. A = {}
    BY <1>5
  <2>2. B = {x.ts}
    BY <1>3, <2>1
  <2> HIDE DEF B, U
  <2>3. Max({x.ts}) = x.ts
    <3> DEFINE z == x.ts
    <3>1. {z} \subseteq Int /\ z \in {z} /\ \A y \in {z} : z >= y
      BY <1>2
    <3> HIDE DEF z
    <3>2. Max({z}) = z
      BY <3>1, MaxIs
    <3> QED BY <3>2 DEF z
  <2> QED BY <1>4, <1>5, <2>2, <2>3 DEF U
<1>6. CASE T # << >>
  <2>1. n \in Nat \ {0}
    BY <1>1, <1>6
  <2> HIDE DEF n, U, B
  <2>2. PICK k \in 1 .. n : \A j \in 1 .. n : T[j].ts <= T[k].ts
    <3> DEFINE a == [j \in 1 .. n |-> T[j].ts]
    <3>1. \A j \in 1 .. n : a[j] \in Int
      BY <1>2
    <3> HIDE DEF a
    <3>2. \E k \in 1 .. n : \A j \in 1 .. n : a[j] <= a[k]
      BY <2>1, <3>1, ExtremesExist
    <3> QED BY <3>2 DEF a
  <2> DEFINE m == T[k].ts
  <2>3. m \in A /\ A \subseteq Int /\ m \in Int /\ \A y \in A : m >= y
    <3>1. A \subseteq Int
      BY <1>1, <1>2
    <3>2. \A y \in A : m >= y
      BY <1>1, <1>2, <2>2
    <3> QED BY <1>1, <1>2, <3>1, <3>2
  <2> HIDE DEF A, m
  <2>4. Max(A) = m
    BY <2>3, MaxIs
  <2>5. Latest(T) = m
    BY <1>6, <2>4 DEF Latest, A
  <2>6. Max(B) = Max({m, x.ts})
    <3>1. CASE m >= x.ts
      <4>1. Max(B) = m
        <5>1. m \in B /\ B \subseteq Int /\ \A y \in B : m >= y
          BY <1>2, <1>3, <2>3, <3>1
        <5> QED BY <5>1, MaxIs
      <4>2. Max({m, x.ts}) = m
        <5>1. m \in {m, x.ts} /\ {m, x.ts} \subseteq Int /\ \A y \in {m, x.ts} : m >= y
          BY <1>2, <2>3, <3>1
        <5> QED BY <5>1, MaxIs
      <4> QED BY <4>1, <4>2
    <3>2. CASE ~(m >= x.ts)
      <4> DEFINE z == x.ts
      <4>1. z \in Int /\ z >= m
        BY <1>2, <2>3, <3>2
      <4>2. z \in B /\ B \subseteq Int /\ \A y \in B : z >= y
        <5>1. \A y \in A : y \in Int /\ z >= y
          BY <2>3, <4>1
        <5> QED BY <1>3, <4>1, <5>1
      <4>3. z \in {m, z} /\ {m, z} \subseteq Int /\ \A y \in {m, z} : z >= y
        BY <2>3, <4>1
      <4> HIDE DEF z
      <4>4. Max(B) = z /\ Max({m, z}) = z
        BY <4>2, <4>3, MaxIs
      <4> QED BY <4>4 DEF z
    <3> QED BY <3>1, <3>2
  <2>7. m # NoValue
    BY <2>3, HorizonAssumption
  <2> QED BY <1>4, <1>6, <2>5, <2>6, <2>7 DEF U
<1> QED BY <1>5, <1>6

\* What _record_reference_stats has counted after the references T.
StatsOf(T, count, invalid) ==
  [count |-> count, valid |-> Len(T), invalid |-> invalid,
   first |-> IF T = << >> THEN NoValue ELSE T[1].ts, last |-> Latest(T),
   previous |-> IF T = << >> THEN NoValue ELSE T[Len(T)].ts,
   backwards |-> Backwards(T), gaps |-> Forward(T), over |-> Cardinality(Wide(Forward(T))),
   overTotal |-> Folded(Overrun, 0, Forward(T)), dated |-> Cardinality(DatedAt(T))]

\* The counters of a feed.
Counters == {"count", "valid", "invalid", "first", "last", "previous", "backwards", "gaps", "over",
             "overTotal", "dated"}

HasCounters(r) == r = [h \in Counters |-> r[h]]

LEMMA SameCounters ==
  ASSUME NEW r, NEW w, HasCounters(r), HasCounters(w),
         r.count = w.count, r.valid = w.valid, r.invalid = w.invalid, r.first = w.first,
         r.last = w.last, r.previous = w.previous, r.backwards = w.backwards, r.gaps = w.gaps,
         r.over = w.over, r.overTotal = w.overTotal, r.dated = w.dated
  PROVE  r = w
<1>1. \A h \in Counters : r[h] = w[h]
  BY DEF Counters
<1> QED BY <1>1 DEF HasCounters

\* Changing counters leaves their names alone.
LEMMA CountersKept ==
  ASSUME NEW st, HasCounters(st), NEW r, NEW a, NEW b, NEW c, NEW d, NEW e, NEW f, NEW g, NEW h, NEW i,
         r = [st EXCEPT !.valid = a, !.first = b, !.last = c, !.backwards = d, !.gaps = e,
                        !.over = f, !.overTotal = g, !.previous = h, !.dated = i]
  PROVE  HasCounters(r)
BY Zenon DEF HasCounters

\* _record_reference_stats, counter by counter.
LEMMA Recorded ==
  ASSUME NEW st, HasCounters(st), NEW x
  PROVE  LET r == RecordReference(st, x)
             gap == x.ts - st.previous
             forward == st.previous # NoValue /\ gap >= 0
             wide == forward /\ gap > MaxReferenceGap
         IN  /\ HasCounters(r)
             /\ r.count = st.count /\ r.valid = st.valid + 1 /\ r.invalid = st.invalid
             /\ r.first = IF st.first = NoValue THEN x.ts ELSE st.first
             /\ r.last = IF st.last = NoValue THEN x.ts ELSE Max({st.last, x.ts})
             /\ r.previous = x.ts
             /\ r.backwards = IF st.previous # NoValue /\ gap < 0 THEN st.backwards + 1 ELSE st.backwards
             /\ r.gaps = IF forward THEN Append(st.gaps, gap) ELSE st.gaps
             /\ r.over = IF wide THEN st.over + 1 ELSE st.over
             /\ r.overTotal = IF wide THEN st.overTotal + gap - MaxReferenceGap ELSE st.overTotal
             /\ r.dated = IF HasExchangeTime(x) THEN st.dated + 1 ELSE st.dated
<1> DEFINE r == RecordReference(st, x)
           gap == x.ts - st.previous
           forward == st.previous # NoValue /\ gap >= 0
           wide == forward /\ gap > MaxReferenceGap
<1>1. DOMAIN st = Counters
  BY DEF HasCounters
<1>2. HasCounters(r)
  <2> DEFINE a == st.valid + 1
             b == IF st.first = NoValue THEN x.ts ELSE st.first
             c == IF st.last = NoValue THEN x.ts ELSE Max({st.last, x.ts})
             d == IF st.previous # NoValue /\ gap < 0 THEN st.backwards + 1 ELSE st.backwards
             e == IF forward THEN Append(st.gaps, gap) ELSE st.gaps
             f == IF wide THEN st.over + 1 ELSE st.over
             g == IF wide THEN st.overTotal + gap - MaxReferenceGap ELSE st.overTotal
             i == IF HasExchangeTime(x) THEN st.dated + 1 ELSE st.dated
  <2>1. r = [st EXCEPT !.valid = a, !.first = b, !.last = c, !.backwards = d, !.gaps = e,
                       !.over = f, !.overTotal = g, !.previous = x.ts, !.dated = i]
    BY Zenon DEF RecordReference
  <2> HIDE DEF r, a, b, c, d, e, f, g, i
  <2>. QED BY <2>1, CountersKept, Zenon
<1>3. r.count = st.count /\ r.valid = st.valid + 1 /\ r.invalid = st.invalid
  BY <1>1 DEF RecordReference, Counters
<1>4. r.first = IF st.first = NoValue THEN x.ts ELSE st.first
  BY <1>1 DEF RecordReference, Counters
<1>5. r.last = IF st.last = NoValue THEN x.ts ELSE Max({st.last, x.ts})
  BY <1>1 DEF RecordReference, Counters
<1>6. r.previous = x.ts /\ r.dated = IF HasExchangeTime(x) THEN st.dated + 1 ELSE st.dated
  BY <1>1 DEF RecordReference, Counters
<1>7. r.backwards = IF st.previous # NoValue /\ gap < 0 THEN st.backwards + 1 ELSE st.backwards
  BY <1>1 DEF RecordReference, Counters
<1>8. r.gaps = IF forward THEN Append(st.gaps, gap) ELSE st.gaps
  BY <1>1 DEF RecordReference, Counters
<1>9. r.over = IF wide THEN st.over + 1 ELSE st.over
  BY <1>1 DEF RecordReference, Counters
<1>10. r.overTotal = IF wide THEN st.overTotal + gap - MaxReferenceGap ELSE st.overTotal
  BY <1>1 DEF RecordReference, Counters
<1> HIDE DEF r
<1> QED BY <1>2, <1>3, <1>4, <1>5, <1>6, <1>7, <1>8, <1>9, <1>10 DEF r

\* One more reference.
LEMMA RecordsOneMore ==
  ASSUME NEW T \in Seq(SeenRow), NEW x \in SeenRow, NEW count, NEW invalid
  PROVE  RecordReference(StatsOf(T, count, invalid), x) = StatsOf(Append(T, x), count, invalid)
<1> DEFINE n == Len(T)
           U == Append(T, x)
           p == IF T = << >> THEN NoValue ELSE T[n].ts
           d == x.ts - p
           forward == p # NoValue /\ d >= 0
           wide == forward /\ d > MaxReferenceGap
           back == p # NoValue /\ d < 0
           first == IF T = << >> THEN NoValue ELSE T[1].ts
           total == Folded(Overrun, 0, Forward(T))
<1>1. n \in Nat /\ U # << >> /\ Len(U) = n + 1 /\ U[n + 1] = x /\ U[1] = IF T = << >> THEN x ELSE T[1]
  BY Appended
<1>2. x.ts \in Int /\ x.ts # NoValue
  BY SeenTimes
<1>3. T # << >> => T[1].ts \in Int /\ T[1].ts # NoValue /\ T[n].ts \in Int /\ T[n].ts # NoValue
  <2> SUFFICES ASSUME T # << >> PROVE T[1] \in SeenRow /\ T[n] \in SeenRow
    BY SeenTimes
  <2> QED OBVIOUS
<1> DEFINE st == StatsOf(T, count, invalid)
           w == StatsOf(U, count, invalid)
           r == RecordReference(st, x)
<1>4. /\ HasCounters(st) /\ st.count = count /\ st.valid = n /\ st.invalid = invalid
      /\ st.first = first /\ st.last = Latest(T) /\ st.previous = p /\ st.backwards = Backwards(T)
      /\ st.gaps = Forward(T) /\ st.over = Cardinality(Wide(Forward(T))) /\ st.overTotal = total
      /\ st.dated = Cardinality(DatedAt(T))
  <2> HIDE DEF n
  <2> QED BY DEF StatsOf, HasCounters, Counters, n
<1>5. (IF first = NoValue THEN x.ts ELSE first) = U[1].ts
  BY <1>1, <1>3
<1>6. (IF Latest(T) = NoValue THEN x.ts ELSE Max({Latest(T), x.ts})) = Latest(U)
  <2>1. T = << >> => Latest(T) = NoValue
    BY DEF Latest
  <2> QED BY <2>1, LatestMore
<1>7. (p # NoValue <=> T # << >>) /\ (T # << >> => d = x.ts - T[n].ts /\ d \in Int)
  <2>1. T # << >> => x.ts - T[n].ts \in Int
    BY <1>2, <1>3
  <2> QED BY <1>3, <2>1
<1>8. (IF back THEN Backwards(T) + 1 ELSE Backwards(T)) = Backwards(U)
  <2>1. back <=> T # << >> /\ x.ts < T[n].ts
    <3>1. T # << >> => (x.ts - T[n].ts < 0 <=> x.ts < T[n].ts)
      BY <1>2, <1>3
    <3> HIDE DEF p
    <3> QED BY <1>7, <3>1
  <2> HIDE DEF back
  <2> QED BY <2>1, BackwardsMore
<1>9. forward <=> T # << >> /\ x.ts - T[n].ts >= 0
  <2> HIDE DEF p, d
  <2> QED BY <1>7
<1> HIDE DEF forward, d, p, first, back, U
<1>10. Forward(T) \in Seq(Nat) /\ Forward(U) = IF forward THEN Append(Forward(T), d) ELSE Forward(T)
  <2>1. /\ Forward(T) \in Seq(Nat)
        /\ Forward(U) = IF T # << >> /\ x.ts - T[n].ts >= 0 THEN Append(Forward(T), x.ts - T[n].ts)
                        ELSE Forward(T)
    BY ForwardGrows DEF U
  <2> QED BY <1>7, <1>9, <2>1
<1>11. forward => d \in Nat
  BY <1>7, <1>9
<1>12. (IF wide THEN Cardinality(Wide(Forward(T))) + 1 ELSE Cardinality(Wide(Forward(T))))
         = Cardinality(Wide(Forward(U)))
  <2>1. CASE forward
    BY <1>10, <1>11, <2>1, WideMore
  <2>2. CASE ~forward
    BY <1>10, <2>2
  <2> QED BY <2>1, <2>2
<1>13. (IF wide THEN total + d - MaxReferenceGap ELSE total) = Folded(Overrun, 0, Forward(U))
  <2>1. CASE forward
    <3>1. total \in Nat /\ Folded(Overrun, 0, Forward(U)) = Overrun(total, d)
      BY <1>10, <1>11, <2>1, OverrunMore
    <3>2. total + d - MaxReferenceGap = total + (d - MaxReferenceGap)
      BY <1>11, <2>1, <3>1, ReferenceAssumption
    <3> HIDE DEF total
    <3> QED BY <2>1, <3>1, <3>2 DEF Overrun
  <2>2. CASE ~forward
    BY <1>10, <2>2
  <2> QED BY <2>1, <2>2
<1>14. (IF HasExchangeTime(x) THEN Cardinality(DatedAt(T)) + 1 ELSE Cardinality(DatedAt(T)))
         = Cardinality(DatedAt(U))
  BY DatedMore DEF U
<1>15. /\ HasCounters(w) /\ w.count = count /\ w.valid = Len(U) /\ w.invalid = invalid
       /\ w.first = U[1].ts /\ w.last = Latest(U) /\ w.previous = U[Len(U)].ts
       /\ w.backwards = Backwards(U) /\ w.gaps = Forward(U) /\ w.over = Cardinality(Wide(Forward(U)))
       /\ w.overTotal = Folded(Overrun, 0, Forward(U)) /\ w.dated = Cardinality(DatedAt(U))
  BY <1>1 DEF StatsOf, HasCounters, Counters
<1> HIDE DEF st, w
<1>16. /\ HasCounters(r)
       /\ r.count = st.count /\ r.valid = st.valid + 1 /\ r.invalid = st.invalid
       /\ r.first = IF st.first = NoValue THEN x.ts ELSE st.first
       /\ r.last = IF st.last = NoValue THEN x.ts ELSE Max({st.last, x.ts})
       /\ r.previous = x.ts
       /\ r.backwards = IF back THEN st.backwards + 1 ELSE st.backwards
       /\ r.gaps = IF forward THEN Append(st.gaps, d) ELSE st.gaps
       /\ r.over = IF wide THEN st.over + 1 ELSE st.over
       /\ r.overTotal = IF wide THEN st.overTotal + d - MaxReferenceGap ELSE st.overTotal
       /\ r.dated = IF HasExchangeTime(x) THEN st.dated + 1 ELSE st.dated
  <2> DEFINE gap == x.ts - st.previous
             onward == st.previous # NoValue /\ gap >= 0
             far == onward /\ gap > MaxReferenceGap
             again == st.previous # NoValue /\ gap < 0
  <2>1. /\ HasCounters(r)
        /\ r.count = st.count /\ r.valid = st.valid + 1 /\ r.invalid = st.invalid
        /\ r.first = IF st.first = NoValue THEN x.ts ELSE st.first
        /\ r.last = IF st.last = NoValue THEN x.ts ELSE Max({st.last, x.ts})
        /\ r.previous = x.ts
        /\ r.backwards = IF again THEN st.backwards + 1 ELSE st.backwards
        /\ r.gaps = IF onward THEN Append(st.gaps, gap) ELSE st.gaps
        /\ r.over = IF far THEN st.over + 1 ELSE st.over
        /\ r.overTotal = IF far THEN st.overTotal + gap - MaxReferenceGap ELSE st.overTotal
        /\ r.dated = IF HasExchangeTime(x) THEN st.dated + 1 ELSE st.dated
    BY <1>4, Recorded
  <2>2. gap = d
    BY <1>4 DEF d
  <2>3. (onward <=> forward) /\ (again <=> back)
    BY <1>4, <2>2 DEF forward, back
  <2> HIDE DEF r, gap, onward, again
  <2>4. far <=> wide
    BY <2>2, <2>3
  <2> HIDE DEF far, wide
  <2> QED BY <2>1, <2>2, <2>3, <2>4
<1> HIDE DEF wide, total, r
<1>17. r = w
  <2>1. r.count = w.count /\ r.invalid = w.invalid /\ r.valid = w.valid
    BY <1>1, <1>4, <1>15, <1>16
  <2>2. r.first = w.first /\ r.last = w.last /\ r.previous = w.previous
    BY <1>1, <1>4, <1>5, <1>6, <1>15, <1>16
  <2>3. r.backwards = w.backwards /\ r.gaps = w.gaps /\ r.over = w.over
    BY <1>4, <1>8, <1>10, <1>12, <1>15, <1>16
  <2>4. r.overTotal = w.overTotal /\ r.dated = w.dated
    BY <1>4, <1>13, <1>14, <1>15, <1>16
  <2> QED BY <1>15, <1>16, <2>1, <2>2, <2>3, <2>4, SameCounters
<1> QED BY <1>17 DEF r, st, w, U

-----------------------------------------------------------------------------
(* The tables 4.2H keeps are the references the other programs read. *)

\* A line that 4.2C to 4.2H take for a reference.
LEMMA ReferenceIsSeen ==
  ASSUME NEW line \in EventRow \cup {Torn}, IsReference(line)
  PROVE  line \in SeenRow
<1>1. line \in EventRow /\ ReferenceEventErrors(line) = {}
  BY DEF IsReference
<1>2. ~(line.price <= 0)
  <2>1. "NON_POSITIVE_REFERENCE_PRICE" \notin ReferenceEventErrors(line)
    BY <1>1
  <2> QED BY <2>1 DEF ReferenceEventErrors
<1>3. line.price \in Int
  BY <1>1 DEF EventRow, ReferenceRow
<1> QED BY <1>1, <1>2, <1>3 DEF SeenRow

\* A filter by a test, of a list with one more element: references,
LEMMA ReferencesMore ==
  ASSUME NEW t \in Seq(EventRow \cup {Torn}), NEW x \in EventRow \cup {Torn}
  PROVE  /\ Those(t, IsReference) \in Seq(SeenRow)
         /\ Those(Append(t, x), IsReference) = IF IsReference(x) THEN Append(Those(t, IsReference), x)
                                               ELSE Those(t, IsReference)
<1> DEFINE u == Append(t, x)
           a == {k \in DOMAIN t : IsReference(t[k])}
           b == {k \in DOMAIN u : IsReference(u[k])}
<1>1. /\ Len(t) \in Nat /\ DOMAIN t = 1 .. Len(t) /\ DOMAIN u = 1 .. Len(t) + 1
      /\ u[Len(t) + 1] = x /\ \A k \in 1 .. Len(t) : u[k] = t[k] /\ t[k] \in EventRow \cup {Torn}
  BY Appended
<1>2. (\A k \in 1 .. Len(t) : k \in a <=> k \in b) /\ (Len(t) + 1 \in b <=> IsReference(x))
  <2> HIDE DEF u
  <2> QED BY <1>1
<1>3. Those(t, IsReference) = Picked(t, a) /\ Those(u, IsReference) = Picked(u, b)
  BY DEF Those
<1>4. Picked(t, a) \in Seq(SeenRow)
  <2>1. \A k \in 1 .. Len(t) : k \in a => t[k] \in SeenRow
    BY <1>1, ReferenceIsSeen
  <2> HIDE DEF a
  <2> QED BY <1>1, <2>1, PickedFrom
<1> HIDE DEF a, b
<1>5. Picked(u, b) = IF Len(t) + 1 \in b THEN Append(Picked(t, a), x) ELSE Picked(t, a)
  BY <1>2, PickedMore
<1> QED BY <1>2, <1>3, <1>4, <1>5

\* and clean samples.
LEMMA CleanMore ==
  ASSUME NEW t \in Seq(SampleRow \cup {Torn}), NEW x \in SampleRow \cup {Torn}
  PROVE  /\ Those(t, IsClean) \in Seq(CleanRow) /\ (IsClean(x) => x \in CleanRow)
         /\ Those(Append(t, x), IsClean) = IF IsClean(x) THEN Append(Those(t, IsClean), x)
                                           ELSE Those(t, IsClean)
<1> DEFINE u == Append(t, x)
           a == {k \in DOMAIN t : IsClean(t[k])}
           b == {k \in DOMAIN u : IsClean(u[k])}
<1>1. /\ Len(t) \in Nat /\ DOMAIN t = 1 .. Len(t) /\ DOMAIN u = 1 .. Len(t) + 1
      /\ u[Len(t) + 1] = x /\ \A k \in 1 .. Len(t) : u[k] = t[k] /\ t[k] \in SampleRow \cup {Torn}
  BY Appended
<1>2. (\A k \in 1 .. Len(t) : k \in a <=> k \in b) /\ (Len(t) + 1 \in b <=> IsClean(x))
  <2> HIDE DEF u
  <2> QED BY <1>1
<1>3. Those(t, IsClean) = Picked(t, a) /\ Those(u, IsClean) = Picked(u, b)
  BY DEF Those
<1>4. \A line \in SampleRow \cup {Torn} : IsClean(line) => line \in CleanRow
  BY DEF IsClean, CleanRow
<1>5. Picked(t, a) \in Seq(CleanRow)
  <2>1. \A k \in 1 .. Len(t) : k \in a => t[k] \in CleanRow
    BY <1>1, <1>4
  <2> HIDE DEF a
  <2> QED BY <1>1, <2>1, PickedFrom
<1> HIDE DEF a, b
<1>6. Picked(u, b) = IF Len(t) + 1 \in b THEN Append(Picked(t, a), x) ELSE Picked(t, a)
  BY <1>2, PickedMore
<1> QED BY <1>2, <1>3, <1>4, <1>5, <1>6

\* The counts of lines grow with the statistics.
LEMMA CountedLines ==
  ASSUME NEW T, NEW count, NEW invalid
  PROVE  /\ CountedLine(StatsOf(T, count, invalid)) = StatsOf(T, count + 1, invalid)
         /\ RefusedLine(StatsOf(T, count, invalid)) = StatsOf(T, count + 1, invalid + 1)
<1>1. ASSUME NEW c, NEW i
      PROVE  /\ HasCounters(StatsOf(T, c, i)) /\ StatsOf(T, c, i).count = c /\ StatsOf(T, c, i).invalid = i
             /\ \A h \in Counters \ {"count", "invalid"} : StatsOf(T, c, i)[h] = StatsOf(T, 0, 0)[h]
  BY DEF StatsOf, Counters, HasCounters
<1>2. ASSUME NEW st, HasCounters(st)
      PROVE  /\ HasCounters(CountedLine(st)) /\ CountedLine(st).count = st.count + 1
             /\ \A h \in Counters \ {"count"} : CountedLine(st)[h] = st[h]
  <2>1. DOMAIN st = Counters /\ "count" \in Counters
    BY <1>2 DEF HasCounters, Counters
  <2> QED BY <2>1 DEF CountedLine, HasCounters
<1>3. ASSUME NEW st, HasCounters(st)
      PROVE  /\ HasCounters(RefusedLine(st)) /\ RefusedLine(st).invalid = CountedLine(st).invalid + 1
             /\ \A h \in Counters \ {"invalid"} : RefusedLine(st)[h] = CountedLine(st)[h]
  <2>1. HasCounters(CountedLine(st))
    BY <1>2, <1>3
  <2>2. DOMAIN CountedLine(st) = Counters /\ "invalid" \in Counters
    BY <2>1 DEF HasCounters, Counters
  <2> QED BY <2>2 DEF RefusedLine, HasCounters
<1> DEFINE st == StatsOf(T, count, invalid)
           r == CountedLine(st)
           q == RefusedLine(st)
<1>4. /\ HasCounters(st) /\ HasCounters(r) /\ HasCounters(q)
      /\ r.count = count + 1 /\ r.invalid = invalid /\ q.count = count + 1 /\ q.invalid = invalid + 1
      /\ \A h \in Counters \ {"count", "invalid"} :
           r[h] = StatsOf(T, 0, 0)[h] /\ q[h] = StatsOf(T, 0, 0)[h]
  <2>1. HasCounters(st) /\ st.count = count /\ st.invalid = invalid
    BY <1>1
  <2>2. \A h \in Counters \ {"count", "invalid"} : st[h] = StatsOf(T, 0, 0)[h]
    BY <1>1
  <2> HIDE DEF st
  <2>3. /\ HasCounters(r) /\ r.count = st.count + 1
        /\ \A h \in Counters \ {"count"} : r[h] = st[h]
    BY <1>2, <2>1
  <2>4. /\ HasCounters(q) /\ q.invalid = r.invalid + 1
        /\ \A h \in Counters \ {"invalid"} : q[h] = r[h]
    BY <1>3, <2>1
  <2>5. "count" \in Counters \ {"invalid"} /\ "invalid" \in Counters \ {"count"}
    BY DEF Counters
  <2>6. r.invalid = st.invalid /\ q.count = r.count
    BY <2>3, <2>4, <2>5
  <2> HIDE DEF r, q
  <2> QED BY <2>1, <2>2, <2>3, <2>4, <2>6
<1>5. ASSUME NEW u, HasCounters(u), NEW c, NEW i, u.count = c, u.invalid = i,
             \A h \in Counters \ {"count", "invalid"} : u[h] = StatsOf(T, 0, 0)[h]
      PROVE  u = StatsOf(T, c, i)
  <2> DEFINE w == StatsOf(T, c, i)
  <2>1. /\ HasCounters(w) /\ w.count = c /\ w.invalid = i
        /\ \A h \in Counters \ {"count", "invalid"} : w[h] = StatsOf(T, 0, 0)[h]
    BY <1>1
  <2> HIDE DEF w
  <2>2. \A h \in Counters : u[h] = w[h]
    BY <1>5, <2>1
  <2>3. u = w
    BY <1>5, <2>1, <2>2 DEF HasCounters
  <2> QED BY <2>3 DEF w
<1> HIDE DEF r, q
<1>6. r = StatsOf(T, count + 1, invalid)
  BY <1>4, <1>5
<1>7. q = StatsOf(T, count + 1, invalid + 1)
  BY <1>4, <1>5
<1> QED BY <1>6, <1>7 DEF r, q, st

\* What _ingest_reference_file has after the lines t.
FeedRead(t) ==
  LET T == Those(t, IsReference)
  IN  [stats |-> StatsOf(T, Len(t), Cardinality({k \in DOMAIN t : ~IsReference(t[k])})), table |-> T]

\* The count of the lines that fail a test grows line by line.
LEMMA RefusedMore ==
  ASSUME NEW t \in Seq(EventRow \cup {Torn}), NEW x \in EventRow \cup {Torn}
  PROVE  LET refused(u) == Cardinality({k \in DOMAIN u : ~IsReference(u[k])})
         IN  refused(Append(t, x)) = IF IsReference(x) THEN refused(t) ELSE refused(t) + 1
<1> DEFINE u == Append(t, x)
           n == Len(t)
           a == {k \in DOMAIN t : ~IsReference(t[k])}
           b == {k \in DOMAIN u : ~IsReference(u[k])}
<1>1. /\ n \in Nat /\ DOMAIN t = 1 .. n /\ DOMAIN u = 1 .. n + 1
      /\ u[n + 1] = x /\ \A k \in 1 .. n : u[k] = t[k]
  BY Appended
<1> HIDE DEF u, n
<1>2. /\ a \subseteq 1 .. n /\ b \subseteq 1 .. n + 1 /\ (\A k \in 1 .. n : k \in a <=> k \in b)
      /\ n + 1 \in b <=> ~IsReference(x)
  BY <1>1
<1> HIDE DEF a, b
<1>3. Cardinality(b) = IF n + 1 \in b THEN Cardinality(a) + 1 ELSE Cardinality(a)
  BY <1>1, <1>2, CountMore
<1>4. Cardinality(b) = IF IsReference(x) THEN Cardinality(a) ELSE Cardinality(a) + 1
  BY <1>2, <1>3
<1> QED BY <1>4 DEF a, b, u

\* One line of a feed.
LEMMA ReadsOneMore ==
  ASSUME NEW t \in Seq(EventRow \cup {Torn}), NEW x \in EventRow \cup {Torn}
  PROVE  IngestReference(FeedRead(t), x) = FeedRead(Append(t, x))
<1> DEFINE T == Those(t, IsReference)
           refused(u) == Cardinality({k \in DOMAIN u : ~IsReference(u[k])})
           acc == FeedRead(t)
           n == Len(t)
           r == refused(t)
<1>1. acc = [stats |-> StatsOf(T, n, r), table |-> T]
  BY DEF FeedRead
<1>2. T \in Seq(SeenRow) /\ Those(Append(t, x), IsReference) = IF IsReference(x) THEN Append(T, x) ELSE T
  BY ReferencesMore
<1>3. Len(Append(t, x)) = n + 1
  BY Appended
<1>4. refused(Append(t, x)) = IF IsReference(x) THEN r ELSE r + 1
  BY RefusedMore
<1>5. FeedRead(Append(t, x)) = [stats |-> StatsOf(IF IsReference(x) THEN Append(T, x) ELSE T, n + 1,
                                                  IF IsReference(x) THEN r ELSE r + 1),
                                table |-> IF IsReference(x) THEN Append(T, x) ELSE T]
  BY <1>2, <1>3, <1>4 DEF FeedRead
<1> HIDE DEF n, r, T
<1>6. CASE IsReference(x)
  <2>1. x \in SeenRow
    BY <1>6, ReferenceIsSeen
  <2>2. CountedLine(StatsOf(T, n, r)) = StatsOf(T, n + 1, r)
    BY CountedLines
  <2>3. RecordReference(StatsOf(T, n + 1, r), x) = StatsOf(Append(T, x), n + 1, r)
    BY <1>2, <2>1, RecordsOneMore
  <2>4. acc.stats = StatsOf(T, n, r) /\ acc.table = T
    BY <1>1
  <2>5. IngestReference(acc, x) = [stats |-> RecordReference(CountedLine(acc.stats), x),
                                   table |-> Append(acc.table, x)]
    BY <1>6 DEF IngestReference
  <2> HIDE DEF acc
  <2> QED BY <1>5, <1>6, <2>2, <2>3, <2>4, <2>5 DEF acc
<1>7. CASE ~IsReference(x)
  <2>1. IngestReference(acc, x) = [acc EXCEPT !.stats = RefusedLine(acc.stats)]
    BY <1>7 DEF IngestReference
  <2>2. RefusedLine(StatsOf(T, n, r)) = StatsOf(T, n + 1, r + 1)
    BY CountedLines
  <2> HIDE DEF acc
  <2>3. [acc EXCEPT !.stats = RefusedLine(acc.stats)] = [stats |-> RefusedLine(acc.stats), table |-> T]
    BY <1>1
  <2>4. acc.stats = StatsOf(T, n, r)
    BY <1>1
  <2> QED BY <1>5, <1>7, <2>1, <2>2, <2>3, <2>4 DEF acc
<1> QED BY <1>6, <1>7

\* Nothing was read, nothing counted.
LEMMA NothingRead ==
  /\ Those(<< >>, IsReference) = << >> /\ Those(<< >>, IsClean) = << >>
  /\ StatsOf(<< >>, 0, 0) = NoIngest
  /\ FeedRead(<< >>) = [stats |-> NoIngest, table |-> << >>]
<1>1. Those(<< >>, IsReference) = << >> /\ Those(<< >>, IsClean) = << >>
  BY NothingPicked DEF Those
<1>2. Cardinality({}) = 0
  BY FS_EmptySet
<1>3. DOMAIN << >> = {} /\ Len(<< >>) = 0
  OBVIOUS
<1>4. Forward(<< >>) = << >>
  <2>1. Times(<< >>) = << >>
    BY DEF Times
  <2>2. Those(<< >>, NonNegative) = << >>
    BY NothingPicked DEF Those
  <2> QED BY <2>1, <2>2 DEF Forward, Gaps
<1>5. Wide(<< >>) = {} /\ DatedAt(<< >>) = {}
  BY DEF Wide, DatedAt
<1>6. Backwards(<< >>) = 0
  <2>1. {k \in 1 .. Len(<< >>) - 1 : << >>[k + 1].ts < << >>[k].ts} = {}
    BY <1>3
  <2> QED BY <1>2, <2>1 DEF Backwards
<1>7. Folded(Overrun, 0, << >>) = 0
  <2>1. << >> \in Seq(Nat) /\ 0 \in Nat
    OBVIOUS
  <2> QED BY <2>1, OverrunMore
<1>8. StatsOf(<< >>, 0, 0) = NoIngest
  BY <1>2, <1>3, <1>4, <1>5, <1>6, <1>7 DEF StatsOf, NoIngest, Latest
<1>9. Cardinality({k \in DOMAIN << >> : ~IsReference(<< >>[k])}) = 0
  <2>1. {k \in DOMAIN << >> : ~IsReference(<< >>[k])} = {}
    BY <1>3
  <2> QED BY <1>2, <2>1
<1>10. FeedRead(<< >>) = [stats |-> NoIngest, table |-> << >>]
  BY <1>1, <1>3, <1>8, <1>9 DEF FeedRead
<1> QED BY <1>1, <1>8, <1>10

\* _ingest_reference_file keeps the references of its file, and their statistics.
LEMMA FeedIsRead ==
  ASSUME NEW file, file = NoFile \/ file \in Seq(EventRow \cup {Torn})
  PROVE  IngestReferenceFile(file) = FeedRead(Lines(file))
<1> DEFINE lines == Lines(file)
           n == Len(lines)
           start == [stats |-> NoIngest, table |-> << >>]
           g == [k \in 0 .. n |-> FeedRead(SubSeq(lines, 1, k))]
           after == CHOOSE f : f = [k \in 0 .. n |-> IF k = 0 THEN start ELSE IngestReference(f[k - 1], lines[k])]
<1>1. lines \in Seq(EventRow \cup {Torn})
  BY DEF Lines
<1>2. IngestReferenceFile(file) = after[n]
  BY DEF IngestReferenceFile, Folded, Lines
<1> HIDE DEF lines
<1>3. n \in Nat
  BY <1>1
<1>4. g[0] = start /\ g[n] = FeedRead(lines)
  <2>1. SubSeq(lines, 1, 0) = << >> /\ SubSeq(lines, 1, n) = lines /\ 0 \in 0 .. n /\ n \in 0 .. n
    <3>1. SubSeq(lines, 1, 0) = << >> /\ SubSeq(lines, 1, Len(lines)) = lines
      BY <1>1, PrefixGrows
    <3> QED BY <1>3, <3>1
  <2> HIDE DEF n
  <2> QED BY <2>1, NothingRead
<1>5. \A k \in 1 .. n : g[k] = IngestReference(g[k - 1], lines[k])
  <2> TAKE k \in 1 .. n
  <2>1. /\ SubSeq(lines, 1, k - 1) \in Seq(EventRow \cup {Torn}) /\ lines[k] \in EventRow \cup {Torn}
        /\ SubSeq(lines, 1, k) = Append(SubSeq(lines, 1, k - 1), lines[k])
    <3> DEFINE Row == EventRow \cup {Torn}
    <3>1. lines \in Seq(Row)
      BY <1>1
    <3> HIDE DEF Row
    <3>2. /\ SubSeq(lines, 1, k - 1) \in Seq(Row) /\ lines[k] \in Row
          /\ SubSeq(lines, 1, k) = Append(SubSeq(lines, 1, k - 1), lines[k])
      BY <3>1, PrefixGrows
    <3> QED BY <3>2 DEF Row
  <2>2. k \in 0 .. n /\ k - 1 \in 0 .. n
    BY <1>3
  <2> QED BY <2>1, <2>2, ReadsOneMore
<1>6. g = [k \in 0 .. n |-> IF k = 0 THEN start ELSE IngestReference(g[k - 1], lines[k])]
  <2>1. g = [k \in 0 .. n |-> g[k]]
    OBVIOUS
  <2> HIDE DEF g
  <2>2. \A k \in 0 .. n : k # 0 => k \in 1 .. n
    BY <1>3
  <2>3. \A k \in 0 .. n : g[k] = IF k = 0 THEN start ELSE IngestReference(g[k - 1], lines[k])
    BY <1>4, <1>5, <2>2
  <2> QED BY <2>1, <2>3
<1>7. after = [k \in 0 .. n |-> IF k = 0 THEN start ELSE IngestReference(after[k - 1], lines[k])]
  <2> HIDE DEF g
  <2> QED BY <1>6
<1> HIDE DEF after, g
<1>8. \A k \in 1 .. n : after[k - 1] = g[k - 1] => after[k] = g[k]
  <2>1. \A k \in 1 .. n : k \in 0 .. n /\ k # 0
    BY <1>3
  <2>2. \A k \in 1 .. n : after[k] = IngestReference(after[k - 1], lines[k])
    BY <1>7, <2>1
  <2> QED BY <1>5, <2>2
<1>9. after[0] = g[0]
  <2>1. 0 \in 0 .. n
    BY <1>3
  <2> QED BY <1>4, <1>7, <2>1
<1>10. after[n] = g[n]
  BY <1>3, <1>8, <1>9, SameFold
<1> QED BY <1>2, <1>4, <1>10 DEF lines

\* The events of the depth source, sample by sample.
DepthEvents(C) == [i \in DOMAIN C |-> DepthReferenceEvent(C[i])]

LEMMA DepthEventsMore ==
  ASSUME NEW C \in Seq(CleanRow), NEW x \in CleanRow
  PROVE  /\ DepthEvents(C) \in Seq(SeenRow)
         /\ DepthEvents(Append(C, x)) = Append(DepthEvents(C), DepthReferenceEvent(x))
<1> DEFINE n == Len(C)
           U == Append(C, x)
           D == DepthEvents(C)
           e == DepthReferenceEvent(x)
<1>1. /\ n \in Nat /\ Len(U) = n + 1 /\ DOMAIN C = 1 .. n /\ DOMAIN U = 1 .. n + 1
      /\ U[n + 1] = x /\ \A k \in 1 .. n : U[k] = C[k] /\ C[k] \in CleanRow
  BY Appended
<1> HIDE DEF n, U
<1>2. D = [i \in 1 .. n |-> DepthReferenceEvent(C[i])]
  BY <1>1 DEF DepthEvents
<1>3. \A i \in 1 .. n : DepthReferenceEvent(C[i]) \in SeenRow
  BY <1>1, DepthEvent
<1>4. D \in Seq(SeenRow) /\ Len(D) = n
  <2> HIDE DEF D
  <2> QED BY <1>1, <1>2, <1>3
<1>5. e \in SeenRow
  BY DepthEvent
<1> HIDE DEF D, e
<1>6. /\ Append(D, e) = [i \in 1 .. n + 1 |-> Append(D, e)[i]] /\ Append(D, e)[n + 1] = e
      /\ \A i \in 1 .. n : Append(D, e)[i] = D[i]
  <2>1. /\ Append(D, e) \in Seq(SeenRow) /\ DOMAIN Append(D, e) = 1 .. n + 1
        /\ Append(D, e)[n + 1] = e /\ \A i \in 1 .. n : Append(D, e)[i] = D[i]
    BY <1>4, <1>5, Appended
  <2> DEFINE F == Append(D, e)
  <2>2. F = [i \in DOMAIN F |-> F[i]]
    <3>1. F \in Seq(SeenRow)
      BY <2>1
    <3> HIDE DEF F
    <3> QED BY <3>1
  <2> QED BY <2>1, <2>2
<1>7. DepthEvents(U) = [i \in 1 .. n + 1 |-> DepthReferenceEvent(U[i])]
  BY <1>1 DEF DepthEvents
<1>8. \A i \in 1 .. n + 1 : DepthReferenceEvent(U[i]) = Append(D, e)[i]
  <2> TAKE i \in 1 .. n + 1
  <2>1. CASE i = n + 1
    BY <1>1, <1>6, <2>1 DEF e
  <2>2. CASE i # n + 1
    <3>1. i \in 1 .. n
      BY <1>1, <2>2
    <3> QED BY <1>1, <1>2, <1>6, <3>1
  <2> QED BY <2>1, <2>2
<1>9. DepthEvents(U) = Append(D, e)
  BY <1>6, <1>7, <1>8
<1> QED BY <1>4, <1>9 DEF U, D, e

\* What _ingest_clean_samples has after the lines t.
DatedSamples(C) == {k \in DOMAIN C : C[k].exchange # NoValue}

SamplesRead(t) ==
  LET C == Those(t, IsClean)
  IN  [samples |-> C, objects |-> Cardinality({k \in DOMAIN t : t[k] # Torn}),
       invalid |-> Cardinality({k \in DOMAIN t : ~IsClean(t[k])}),
       dated |-> Cardinality(DatedSamples(C)),
       stats |-> StatsOf(DepthEvents(C), 0, 0), table |-> DepthEvents(C)]

LEMMA DatedSamplesMore ==
  ASSUME NEW C \in Seq(CleanRow), NEW x \in CleanRow
  PROVE  /\ Cardinality(DatedSamples(C)) \in Nat
         /\ Cardinality(DatedSamples(Append(C, x)))
              = IF x.exchange # NoValue THEN Cardinality(DatedSamples(C)) + 1
                ELSE Cardinality(DatedSamples(C))
<1> DEFINE U == Append(C, x)
           n == Len(C)
<1>1. /\ n \in Nat /\ DOMAIN C = 1 .. n /\ DOMAIN U = 1 .. n + 1
      /\ U[n + 1] = x /\ \A k \in 1 .. n : U[k] = C[k]
  BY Appended
<1> HIDE DEF n, U
<1>2. /\ DatedSamples(C) \subseteq 1 .. n /\ DatedSamples(U) \subseteq 1 .. n + 1
      /\ \A k \in 1 .. n : k \in DatedSamples(C) <=> k \in DatedSamples(U)
      /\ n + 1 \in DatedSamples(U) <=> x.exchange # NoValue
  BY <1>1 DEF DatedSamples
<1> QED BY <1>1, <1>2, CountMore DEF U

\* The counts of objects and of bad lines.
LEMMA LinesMore ==
  ASSUME NEW t \in Seq(SampleRow \cup {Torn}), NEW x \in SampleRow \cup {Torn}
  PROVE  LET objects(u) == Cardinality({k \in DOMAIN u : u[k] # Torn})
             invalid(u) == Cardinality({k \in DOMAIN u : ~IsClean(u[k])})
         IN  /\ objects(Append(t, x)) = IF x # Torn THEN objects(t) + 1 ELSE objects(t)
             /\ invalid(Append(t, x)) = IF IsClean(x) THEN invalid(t) ELSE invalid(t) + 1
<1> DEFINE u == Append(t, x)
           n == Len(t)
           a == {k \in DOMAIN t : t[k] # Torn}
           b == {k \in DOMAIN u : u[k] # Torn}
           c == {k \in DOMAIN t : ~IsClean(t[k])}
           d == {k \in DOMAIN u : ~IsClean(u[k])}
<1>1. /\ n \in Nat /\ DOMAIN t = 1 .. n /\ DOMAIN u = 1 .. n + 1
      /\ u[n + 1] = x /\ \A k \in 1 .. n : u[k] = t[k]
  BY Appended
<1> HIDE DEF u, n
<1>2. /\ a \subseteq 1 .. n /\ b \subseteq 1 .. n + 1 /\ (\A k \in 1 .. n : k \in a <=> k \in b)
      /\ n + 1 \in b <=> x # Torn
  BY <1>1
<1>3. /\ c \subseteq 1 .. n /\ d \subseteq 1 .. n + 1 /\ (\A k \in 1 .. n : k \in c <=> k \in d)
      /\ n + 1 \in d <=> ~IsClean(x)
  BY <1>1
<1> HIDE DEF a, b, c, d
<1>4. Cardinality(b) = IF x # Torn THEN Cardinality(a) + 1 ELSE Cardinality(a)
  <2>1. Cardinality(b) = IF n + 1 \in b THEN Cardinality(a) + 1 ELSE Cardinality(a)
    BY <1>1, <1>2, CountMore
  <2> QED BY <1>2, <2>1
<1>5. Cardinality(d) = IF IsClean(x) THEN Cardinality(c) ELSE Cardinality(c) + 1
  <2>1. Cardinality(d) = IF n + 1 \in d THEN Cardinality(c) + 1 ELSE Cardinality(c)
    BY <1>1, <1>3, CountMore
  <2> QED BY <1>3, <2>1
<1> QED BY <1>4, <1>5 DEF a, b, c, d, u

\* The tallies of the samples.
Tallies == {"samples", "objects", "invalid", "dated", "stats", "table"}

HasTallies(r) == r = [h \in Tallies |-> r[h]]

LEMMA SameTallies ==
  ASSUME NEW r, NEW w, HasTallies(r), HasTallies(w),
         r.samples = w.samples, r.objects = w.objects, r.invalid = w.invalid, r.dated = w.dated,
         r.stats = w.stats, r.table = w.table
  PROVE  r = w
<1>1. \A h \in Tallies : r[h] = w[h]
  BY DEF Tallies
<1> QED BY <1>1 DEF HasTallies

\* _ingest_clean_samples, tally by tally.
LEMMA Ingested ==
  ASSUME NEW acc, HasTallies(acc), NEW x
  PROVE  LET r == IngestSample(acc, x)
             good == IsClean(x)
         IN  /\ HasTallies(r)
             /\ r.objects = IF x # Torn THEN acc.objects + 1 ELSE acc.objects
             /\ r.invalid = IF good THEN acc.invalid ELSE acc.invalid + 1
             /\ good => /\ r.samples = Append(acc.samples, x)
                        /\ r.dated = IF x.exchange # NoValue THEN acc.dated + 1 ELSE acc.dated
                        /\ r.stats = RecordReference(acc.stats, DepthReferenceEvent(x))
                        /\ r.table = Append(acc.table, DepthReferenceEvent(x))
             /\ ~good => /\ r.samples = acc.samples /\ r.dated = acc.dated
                         /\ r.stats = acc.stats /\ r.table = acc.table
<1>1. DOMAIN acc = Tallies
  BY DEF HasTallies
<1> DEFINE r == IngestSample(acc, x)
<1>2. CASE x = Torn
  <2>1. ~IsClean(x)
    BY <1>2 DEF IsClean
  <2>2. r = [acc EXCEPT !.invalid = acc.invalid + 1]
    BY <1>2 DEF IngestSample
  <2> HIDE DEF r
  <2>3. /\ HasTallies(r) /\ r.invalid = acc.invalid + 1
        /\ r.samples = acc.samples /\ r.dated = acc.dated /\ r.objects = acc.objects
        /\ r.stats = acc.stats /\ r.table = acc.table
    BY <1>1, <2>2 DEF HasTallies, Tallies
  <2> QED BY <1>2, <2>1, <2>3 DEF r
<1>3. CASE x # Torn /\ ~IsClean(x)
  <2>1. /\ HasTallies(r) /\ r.invalid = acc.invalid + 1 /\ r.objects = acc.objects + 1
        /\ r.samples = acc.samples /\ r.dated = acc.dated
        /\ r.stats = acc.stats /\ r.table = acc.table
    BY <1>1, <1>3 DEF HasTallies, Tallies, IngestSample
  <2> HIDE DEF r
  <2> QED BY <1>3, <2>1 DEF r
<1>4. CASE IsClean(x)
  <2>1. x # Torn
    BY <1>4 DEF IsClean
  <2>2. /\ HasTallies(r) /\ r.invalid = acc.invalid /\ r.objects = acc.objects + 1
    BY <1>1, <1>4, <2>1 DEF HasTallies, Tallies, IngestSample
  <2>3. /\ r.samples = Append(acc.samples, x)
        /\ r.dated = IF x.exchange # NoValue THEN acc.dated + 1 ELSE acc.dated
    BY <1>1, <1>4, <2>1 DEF Tallies, IngestSample
  <2>4. /\ r.stats = RecordReference(acc.stats, DepthReferenceEvent(x))
        /\ r.table = Append(acc.table, DepthReferenceEvent(x))
    BY <1>1, <1>4, <2>1 DEF Tallies, IngestSample
  <2> HIDE DEF r
  <2> QED BY <1>4, <2>1, <2>2, <2>3, <2>4 DEF r
<1> QED BY <1>2, <1>3, <1>4

\* One line of the samples.
LEMMA ReadsOneSample ==
  ASSUME NEW t \in Seq(SampleRow \cup {Torn}), NEW x \in SampleRow \cup {Torn}
  PROVE  IngestSample(SamplesRead(t), x) = SamplesRead(Append(t, x))
<1> DEFINE C == Those(t, IsClean)
           E == Those(Append(t, x), IsClean)
           D == DepthEvents(C)
           e == DepthReferenceEvent(x)
           acc == SamplesRead(t)
           w == SamplesRead(Append(t, x))
           r == IngestSample(acc, x)
           objects(u) == Cardinality({k \in DOMAIN u : u[k] # Torn})
           invalid(u) == Cardinality({k \in DOMAIN u : ~IsClean(u[k])})
<1>1. /\ HasTallies(acc) /\ acc.samples = C /\ acc.objects = objects(t) /\ acc.invalid = invalid(t)
      /\ acc.dated = Cardinality(DatedSamples(C)) /\ acc.stats = StatsOf(D, 0, 0) /\ acc.table = D
  BY DEF SamplesRead, HasTallies, Tallies
<1>2. /\ HasTallies(w) /\ w.samples = E /\ w.objects = objects(Append(t, x))
      /\ w.invalid = invalid(Append(t, x)) /\ w.dated = Cardinality(DatedSamples(E))
      /\ w.stats = StatsOf(DepthEvents(E), 0, 0) /\ w.table = DepthEvents(E)
  BY DEF SamplesRead, HasTallies, Tallies
<1>3. /\ C \in Seq(CleanRow) /\ (IsClean(x) => x \in CleanRow)
      /\ E = IF IsClean(x) THEN Append(C, x) ELSE C
  BY CleanMore
<1>4. /\ objects(Append(t, x)) = IF x # Torn THEN objects(t) + 1 ELSE objects(t)
      /\ invalid(Append(t, x)) = IF IsClean(x) THEN invalid(t) ELSE invalid(t) + 1
  BY LinesMore
<1> HIDE DEF acc, w, C, E
<1>5. /\ HasTallies(r)
      /\ r.objects = IF x # Torn THEN acc.objects + 1 ELSE acc.objects
      /\ r.invalid = IF IsClean(x) THEN acc.invalid ELSE acc.invalid + 1
      /\ IsClean(x) => /\ r.samples = Append(acc.samples, x)
                       /\ r.dated = IF x.exchange # NoValue THEN acc.dated + 1 ELSE acc.dated
                       /\ r.stats = RecordReference(acc.stats, e)
                       /\ r.table = Append(acc.table, e)
      /\ ~IsClean(x) => /\ r.samples = acc.samples /\ r.dated = acc.dated
                        /\ r.stats = acc.stats /\ r.table = acc.table
  BY <1>1, Ingested
<1> HIDE DEF r, e, D
<1>6. r.objects = w.objects /\ r.invalid = w.invalid
  BY <1>1, <1>2, <1>4, <1>5
<1>7. r.samples = w.samples /\ r.dated = w.dated /\ r.stats = w.stats /\ r.table = w.table
  <2>1. CASE IsClean(x)
    <3>1. E = Append(C, x) /\ x \in CleanRow
      BY <1>3, <2>1
    <3>2. D \in Seq(SeenRow) /\ DepthEvents(E) = Append(D, e) /\ e \in SeenRow
      BY <1>3, <3>1, DepthEventsMore, DepthEvent DEF D, e
    <3>3. RecordReference(StatsOf(D, 0, 0), e) = StatsOf(Append(D, e), 0, 0)
      BY <3>2, RecordsOneMore
    <3>4. Cardinality(DatedSamples(E))
            = IF x.exchange # NoValue THEN Cardinality(DatedSamples(C)) + 1
              ELSE Cardinality(DatedSamples(C))
      BY <1>3, <3>1, DatedSamplesMore
    <3>5. r.samples = w.samples /\ r.dated = w.dated
      BY <1>1, <1>2, <1>5, <2>1, <3>1, <3>4
    <3>6. r.stats = w.stats /\ r.table = w.table
      BY <1>1, <1>2, <1>5, <2>1, <3>2, <3>3
    <3> QED BY <3>5, <3>6
  <2>2. CASE ~IsClean(x)
    BY <1>1, <1>2, <1>3, <1>5, <2>2 DEF D
  <2> QED BY <2>1, <2>2
<1>8. r = w
  BY <1>2, <1>5, <1>6, <1>7, SameTallies
<1> QED BY <1>8 DEF r, w, acc

\* _ingest_clean_samples keeps the clean samples of its file, and their statistics.
LEMMA SamplesAreRead ==
  ASSUME NEW file, file = NoFile \/ file \in Seq(SampleRow \cup {Torn})
  PROVE  IngestCleanSamples(file) = SamplesRead(Lines(file))
<1> DEFINE lines == Lines(file)
           n == Len(lines)
           start == [samples |-> << >>, objects |-> 0, invalid |-> 0, dated |-> 0,
                     stats |-> NoIngest, table |-> << >>]
           g == [k \in 0 .. n |-> SamplesRead(SubSeq(lines, 1, k))]
           after == CHOOSE f : f = [k \in 0 .. n |-> IF k = 0 THEN start ELSE IngestSample(f[k - 1], lines[k])]
<1>1. lines \in Seq(SampleRow \cup {Torn})
  BY DEF Lines
<1>2. IngestCleanSamples(file) = after[n]
  BY DEF IngestCleanSamples, Folded, Lines
<1> HIDE DEF lines
<1>3. n \in Nat
  BY <1>1
<1>4. SamplesRead(<< >>) = start
  <2>1. Those(<< >>, IsClean) = << >> /\ StatsOf(<< >>, 0, 0) = NoIngest
    BY NothingRead
  <2>2. Cardinality({}) = 0
    BY FS_EmptySet
  <2>3. DepthEvents(<< >>) = << >> /\ DatedSamples(<< >>) = {}
    BY DEF DepthEvents, DatedSamples
  <2>4. {k \in DOMAIN << >> : << >>[k] # Torn} = {} /\ {k \in DOMAIN << >> : ~IsClean(<< >>[k])} = {}
    OBVIOUS
  <2> QED BY <2>1, <2>2, <2>3, <2>4 DEF SamplesRead
<1>5. g[0] = start /\ g[n] = SamplesRead(lines)
  <2>1. SubSeq(lines, 1, 0) = << >> /\ SubSeq(lines, 1, n) = lines /\ 0 \in 0 .. n /\ n \in 0 .. n
    <3>1. SubSeq(lines, 1, 0) = << >> /\ SubSeq(lines, 1, Len(lines)) = lines
      BY <1>1, PrefixGrows
    <3> QED BY <1>3, <3>1
  <2> HIDE DEF n
  <2> QED BY <1>4, <2>1
<1>6. \A k \in 1 .. n : g[k] = IngestSample(g[k - 1], lines[k])
  <2> TAKE k \in 1 .. n
  <2>1. /\ SubSeq(lines, 1, k - 1) \in Seq(SampleRow \cup {Torn}) /\ lines[k] \in SampleRow \cup {Torn}
        /\ SubSeq(lines, 1, k) = Append(SubSeq(lines, 1, k - 1), lines[k])
    <3> DEFINE Row == SampleRow \cup {Torn}
    <3>1. lines \in Seq(Row)
      BY <1>1
    <3> HIDE DEF Row
    <3>2. /\ SubSeq(lines, 1, k - 1) \in Seq(Row) /\ lines[k] \in Row
          /\ SubSeq(lines, 1, k) = Append(SubSeq(lines, 1, k - 1), lines[k])
      BY <3>1, PrefixGrows
    <3> QED BY <3>2 DEF Row
  <2>2. k \in 0 .. n /\ k - 1 \in 0 .. n
    BY <1>3
  <2> QED BY <2>1, <2>2, ReadsOneSample
<1>7. g = [k \in 0 .. n |-> IF k = 0 THEN start ELSE IngestSample(g[k - 1], lines[k])]
  <2>1. g = [k \in 0 .. n |-> g[k]]
    OBVIOUS
  <2> HIDE DEF g
  <2>2. \A k \in 0 .. n : k # 0 => k \in 1 .. n
    BY <1>3
  <2> HIDE DEF start
  <2>3. \A k \in 0 .. n : g[k] = IF k = 0 THEN start ELSE IngestSample(g[k - 1], lines[k])
    BY <1>5, <1>6, <2>2
  <2> QED BY <2>1, <2>3
<1> HIDE DEF start
<1>8. after = [k \in 0 .. n |-> IF k = 0 THEN start ELSE IngestSample(after[k - 1], lines[k])]
  <2> HIDE DEF g
  <2> QED BY <1>7
<1> HIDE DEF after, g
<1>9. \A k \in 1 .. n : after[k - 1] = g[k - 1] => after[k] = g[k]
  <2>1. \A k \in 1 .. n : k \in 0 .. n /\ k # 0
    BY <1>3
  <2>2. \A k \in 1 .. n : after[k] = IngestSample(after[k - 1], lines[k])
    BY <1>8, <2>1
  <2> QED BY <1>6, <2>2
<1>10. after[0] = g[0]
  <2>1. 0 \in 0 .. n
    BY <1>3
  <2> QED BY <1>5, <1>8, <2>1
<1>11. after[n] = g[n]
  BY <1>3, <1>9, <1>10, SameFold
<1> QED BY <1>2, <1>5, <1>11 DEF lines

-----------------------------------------------------------------------------
(* Counting labels as they come, or at the end. *)

\* The invalid labels of a reason.
ForReason(l, r) == {i \in DOMAIN l : ~l[i].valid /\ l[i].reason = r}

Invalids(l) == {i \in DOMAIN l : ~l[i].valid}

LEMMA ReasonsOf ==
  ASSUME NEW l, Len(l) \in Nat, DOMAIN l = 1 .. Len(l)
  PROVE  /\ InvalidReasons(l) = [r \in {l[i].reason : i \in Invalids(l)} |-> Cardinality(ForReason(l, r))]
         /\ \A r : Count(InvalidReasons(l), r) = Cardinality(ForReason(l, r))
<1>1. \A r : {i \in {j \in DOMAIN l : ~l[j].valid} : l[i].reason = r} = ForReason(l, r)
  BY DEF ForReason
<1>2. InvalidReasons(l) = [r \in {l[i].reason : i \in Invalids(l)} |-> Cardinality(ForReason(l, r))]
  BY <1>1 DEF InvalidReasons, Invalids
<1>3. ASSUME NEW r PROVE Count(InvalidReasons(l), r) = Cardinality(ForReason(l, r))
  <2>1. CASE r \in {l[i].reason : i \in Invalids(l)}
    BY <1>2, <2>1 DEF Count
  <2>2. CASE r \notin {l[i].reason : i \in Invalids(l)}
    <3>1. ForReason(l, r) = {}
      BY <2>2 DEF ForReason, Invalids
    <3>2. Cardinality({}) = 0
      BY FS_EmptySet
    <3> QED BY <1>2, <2>2, <3>1, <3>2 DEF Count
  <2> QED BY <2>1, <2>2
<1> QED BY <1>2, <1>3

\* One more label adds its reason, unless it is valid.
LEMMA ReasonsMore ==
  ASSUME NEW S, NEW l \in Seq(S), NEW x \in S
  PROVE  InvalidReasons(Append(l, x)) = IF x.valid THEN InvalidReasons(l)
                                        ELSE Counted(InvalidReasons(l), x.reason)
<1> DEFINE u == Append(l, x)
           n == Len(l)
           was == {l[i].reason : i \in Invalids(l)}
           is == {u[i].reason : i \in Invalids(u)}
<1>1. /\ n \in Nat /\ Len(u) = n + 1 /\ DOMAIN l = 1 .. n /\ DOMAIN u = 1 .. n + 1
      /\ u[n + 1] = x /\ \A k \in 1 .. n : u[k] = l[k]
  BY Appended
<1>2. /\ InvalidReasons(l) = [r \in was |-> Cardinality(ForReason(l, r))]
      /\ \A r : Count(InvalidReasons(l), r) = Cardinality(ForReason(l, r))
  BY <1>1, ReasonsOf
<1>3. InvalidReasons(u) = [r \in is |-> Cardinality(ForReason(u, r))]
  <2>1. Len(u) \in Nat /\ DOMAIN u = 1 .. Len(u)
    BY <1>1
  <2> HIDE DEF u
  <2> QED BY <2>1, ReasonsOf
<1> HIDE DEF u, n
<1>4. ASSUME NEW r
      PROVE  /\ Cardinality(ForReason(l, r)) \in Nat
             /\ Cardinality(ForReason(u, r)) = IF ~x.valid /\ x.reason = r THEN Cardinality(ForReason(l, r)) + 1
                                               ELSE Cardinality(ForReason(l, r))
  <2>1. /\ ForReason(l, r) \subseteq 1 .. n /\ ForReason(u, r) \subseteq 1 .. n + 1
        /\ \A k \in 1 .. n : k \in ForReason(l, r) <=> k \in ForReason(u, r)
    BY <1>1 DEF ForReason
  <2>2. n + 1 \in ForReason(u, r) <=> ~x.valid /\ x.reason = r
    BY <1>1 DEF ForReason
  <2> QED BY <1>1, <2>1, <2>2, CountMore
<1>5. is = IF x.valid THEN was ELSE was \cup {x.reason}
  <2>1. \A k \in 1 .. n : k \in Invalids(l) <=> k \in Invalids(u)
    BY <1>1 DEF Invalids
  <2>2. (n + 1 \in Invalids(u) <=> ~x.valid) /\ Invalids(l) \subseteq 1 .. n
    BY <1>1 DEF Invalids
  <2>3. \A k \in Invalids(u) : k \in 1 .. n \/ k = n + 1
    BY <1>1 DEF Invalids
  <2>4. \A y \in is : y \in was \/ (~x.valid /\ y = x.reason)
    BY <1>1, <2>1, <2>2, <2>3
  <2>5. \A y \in was : y \in is
    BY <1>1, <2>1, <2>2
  <2>6. ~x.valid => x.reason \in is
    BY <1>1, <2>2
  <2> HIDE DEF was, is
  <2>7. CASE x.valid
    BY <2>4, <2>5, <2>7
  <2>8. CASE ~x.valid
    BY <2>4, <2>5, <2>6, <2>8
  <2> QED BY <2>7, <2>8
<1> HIDE DEF was, is
<1>6. CASE x.valid
  BY <1>2, <1>3, <1>4, <1>5, <1>6 DEF u
<1>7. CASE ~x.valid
  <2>1. DOMAIN InvalidReasons(l) = was
    BY <1>2
  <2>2. Counted(InvalidReasons(l), x.reason)
          = [r \in was \cup {x.reason} |-> Cardinality(ForReason(l, r)) + (IF r = x.reason THEN 1 ELSE 0)]
    BY <1>2, <2>1 DEF Counted
  <2>3. InvalidReasons(u) = [r \in was \cup {x.reason} |-> Cardinality(ForReason(u, r))]
    BY <1>3, <1>5, <1>7
  <2>4. \A r : Cardinality(ForReason(u, r)) = Cardinality(ForReason(l, r)) + (IF r = x.reason THEN 1 ELSE 0)
    BY <1>4, <1>7
  <2> QED BY <1>7, <2>2, <2>3, <2>4 DEF u
<1> QED BY <1>6, <1>7

\* One more label adds its value, unless it has none.
LEMMA ValuesMore ==
  ASSUME NEW S, NEW l \in Seq(S), NEW x \in S, NEW field
  PROVE  Values(Append(l, x), field) = Kept(Values(l, field), x[field])
<1> DEFINE u == Append(l, x)
           n == Len(l)
           W == {y[field] : y \in S}
           v == [i \in DOMAIN l |-> l[i][field]]
           w == [i \in DOMAIN u |-> u[i][field]]
<1>1. /\ n \in Nat /\ Len(u) = n + 1 /\ DOMAIN l = 1 .. n /\ DOMAIN u = 1 .. n + 1
      /\ u[n + 1] = x /\ \A k \in 1 .. n : u[k] = l[k] /\ l[k] \in S
  BY Appended
<1> HIDE DEF u, n
<1>2. v \in Seq(W) /\ Len(v) = n /\ DOMAIN v = 1 .. n /\ x[field] \in W
      /\ \A k \in 1 .. n : v[k] = l[k][field]
  <2>1. v = [i \in 1 .. n |-> l[i][field]]
    BY <1>1
  <2>2. \A k \in 1 .. n : l[k][field] \in W
    BY <1>1
  <2>3. x[field] \in W
    OBVIOUS
  <2> HIDE DEF v, W
  <2> QED BY <1>1, <2>1, <2>2, <2>3
<1>3. w = [i \in 1 .. n + 1 |-> u[i][field]]
  BY <1>1
<1> HIDE DEF v, W, w
<1> DEFINE t == Append(v, x[field])
<1>4. /\ t \in Seq(W) /\ DOMAIN t = 1 .. n + 1 /\ t[n + 1] = x[field]
      /\ \A k \in 1 .. n : t[k] = v[k]
  BY <1>2, Appended
<1> HIDE DEF t
<1>5. w = t
  <2>1. \A k \in 1 .. n + 1 : u[k][field] = t[k]
    <3> TAKE k \in 1 .. n + 1
    <3>1. CASE k = n + 1
      BY <1>1, <1>4, <3>1
    <3>2. CASE k # n + 1
      <4>1. k \in 1 .. n
        BY <1>1, <3>2
      <4> QED BY <1>1, <1>2, <1>4, <4>1
    <3> QED BY <3>1, <3>2
  <2>2. t = [k \in DOMAIN t |-> t[k]]
    BY <1>4
  <2> QED BY <1>3, <1>4, <2>1, <2>2
<1> DEFINE a == {k \in DOMAIN v : IsValue(v[k])}
           b == {k \in DOMAIN t : IsValue(t[k])}
<1>6. (\A k \in 1 .. n : k \in a <=> k \in b) /\ (n + 1 \in b <=> x[field] # NoValue)
  BY <1>1, <1>2, <1>4 DEF IsValue
<1>7. Values(l, field) = Picked(v, a) /\ Values(u, field) = Picked(t, b)
  <2>1. Values(l, field) = Picked(v, a)
    BY DEF Values, Those, v
  <2>2. Values(u, field) = Picked(w, {k \in DOMAIN w : IsValue(w[k])})
    BY DEF Values, Those, w
  <2> QED BY <1>5, <2>1, <2>2
<1> HIDE DEF a, b
<1>8. Picked(t, b) = IF n + 1 \in b THEN Append(Picked(v, a), x[field]) ELSE Picked(v, a)
  <2>1. \A k \in 1 .. Len(v) : k \in a <=> k \in b
    BY <1>2, <1>6
  <2> DEFINE z == x[field]
  <2>2. v \in Seq(W) /\ z \in W
    BY <1>2
  <2> HIDE DEF z
  <2>3. Picked(Append(v, z), b) = IF Len(v) + 1 \in b THEN Append(Picked(v, a), z) ELSE Picked(v, a)
    BY <2>1, <2>2, PickedMore
  <2> QED BY <1>2, <2>3 DEF t, z
<1> QED BY <1>6, <1>7, <1>8 DEF Kept, u

\* How many labels are eligible, and how many are valid.
EligibleCount(l) == Cardinality({i \in DOMAIN l : l[i].eligible})

LEMMA VerdictsMore ==
  ASSUME NEW S, NEW l \in Seq(S), NEW x \in S
  PROVE  /\ EligibleCount(Append(l, x)) = IF x.eligible THEN EligibleCount(l) + 1 ELSE EligibleCount(l)
         /\ ValidCount(Append(l, x)) = IF x.valid THEN ValidCount(l) + 1 ELSE ValidCount(l)
<1> DEFINE u == Append(l, x)
           n == Len(l)
           a == {i \in DOMAIN l : l[i].eligible}
           b == {i \in DOMAIN u : u[i].eligible}
           c == {i \in DOMAIN l : l[i].valid}
           d == {i \in DOMAIN u : u[i].valid}
<1>1. /\ n \in Nat /\ DOMAIN l = 1 .. n /\ DOMAIN u = 1 .. n + 1
      /\ u[n + 1] = x /\ \A k \in 1 .. n : u[k] = l[k]
  BY Appended
<1> HIDE DEF u, n
<1>2. /\ a \subseteq 1 .. n /\ b \subseteq 1 .. n + 1 /\ (\A k \in 1 .. n : k \in a <=> k \in b)
      /\ n + 1 \in b <=> x.eligible
  BY <1>1
<1>3. /\ c \subseteq 1 .. n /\ d \subseteq 1 .. n + 1 /\ (\A k \in 1 .. n : k \in c <=> k \in d)
      /\ n + 1 \in d <=> x.valid
  BY <1>1
<1> HIDE DEF a, b, c, d
<1>4. Cardinality(b) = IF x.eligible THEN Cardinality(a) + 1 ELSE Cardinality(a)
  <2>1. Cardinality(b) = IF n + 1 \in b THEN Cardinality(a) + 1 ELSE Cardinality(a)
    BY <1>1, <1>2, CountMore
  <2> QED BY <1>2, <2>1
<1>5. Cardinality(d) = IF x.valid THEN Cardinality(c) + 1 ELSE Cardinality(c)
  <2>1. Cardinality(d) = IF n + 1 \in d THEN Cardinality(c) + 1 ELSE Cardinality(c)
    BY <1>1, <1>3, CountMore
  <2> QED BY <1>3, <2>1
<1> QED BY <1>4, <1>5 DEF EligibleCount, ValidCount, a, b, c, d, u

\* What an accumulator has after the labels l: nothing of the fields it does not keep.
Seen(l, gaps, feature, future) ==
  [total |-> Len(l), eligible |-> EligibleCount(l), valid |-> ValidCount(l),
   reasons |-> InvalidReasons(l),
   gaps |-> gaps, feature |-> feature, future |-> future]

\* One more label.
LEMMA ObservedMore ==
  ASSUME NEW S, NEW l \in Seq(S), NEW x \in S, NEW gaps, NEW feature, NEW future
  PROVE  Observed(Seen(l, gaps, feature, future), x) = Seen(Append(l, x), gaps, feature, future)
<1> DEFINE u == Append(l, x)
           st == Seen(l, gaps, feature, future)
           w == Seen(u, gaps, feature, future)
           r == Observed(st, x)
           Fields == {"total", "eligible", "valid", "reasons", "gaps", "feature", "future"}
<1>1. Len(u) = Len(l) + 1
  BY Appended
<1>2. /\ EligibleCount(u) = IF x.eligible THEN EligibleCount(l) + 1 ELSE EligibleCount(l)
      /\ ValidCount(u) = IF x.valid THEN ValidCount(l) + 1 ELSE ValidCount(l)
  BY VerdictsMore
<1>3. InvalidReasons(u) = IF x.valid THEN InvalidReasons(l) ELSE Counted(InvalidReasons(l), x.reason)
  BY ReasonsMore
<1>4. /\ st = [h \in Fields |-> st[h]] /\ st.total = Len(l) /\ st.eligible = EligibleCount(l)
      /\ st.valid = ValidCount(l) /\ st.reasons = InvalidReasons(l)
      /\ st.gaps = gaps /\ st.feature = feature /\ st.future = future
  BY DEF Seen
<1> HIDE DEF u
<1>5. /\ w = [h \in Fields |-> w[h]] /\ w.total = Len(u) /\ w.eligible = EligibleCount(u)
      /\ w.valid = ValidCount(u) /\ w.reasons = InvalidReasons(u)
      /\ w.gaps = gaps /\ w.feature = feature /\ w.future = future
  BY DEF Seen
<1> HIDE DEF st, w
<1>6. DOMAIN st = Fields
  BY <1>4
<1>7. /\ r = [h \in Fields |-> r[h]] /\ r.total = st.total + 1
      /\ r.gaps = st.gaps /\ r.feature = st.feature /\ r.future = st.future
  BY <1>6 DEF Observed
<1>8. /\ r.eligible = IF x.eligible THEN st.eligible + 1 ELSE st.eligible
      /\ r.valid = IF x.valid THEN st.valid + 1 ELSE st.valid
      /\ r.reasons = IF x.valid THEN st.reasons ELSE Counted(st.reasons, x.reason)
  BY <1>6 DEF Observed
<1> HIDE DEF r
<1>9. \A h \in Fields : r[h] = w[h]
  <2>1. r.total = w.total /\ r.gaps = w.gaps /\ r.feature = w.feature /\ r.future = w.future
    BY <1>1, <1>4, <1>5, <1>7
  <2>2. r.eligible = w.eligible /\ r.valid = w.valid /\ r.reasons = w.reasons
    BY <1>2, <1>3, <1>4, <1>5, <1>8
  <2> QED BY <2>1, <2>2
<1> HIDE DEF Fields
<1>10. r = w
  BY <1>5, <1>7, <1>9
<1> QED BY <1>10 DEF r, w, st, u

\* What ProtocolMetricAccumulator and HybridMetricAccumulator have after the labels l.
ProtocolSeen(l) == Seen(l, Values(l, "gap"), << >>, << >>)

HybridSeen(l) == Seen(l, << >>, Values(l, "featureLag"), Values(l, "futureLag"))

LEMMA TotalsMore ==
  ASSUME NEW S, NEW l \in Seq(S), NEW x \in S
  PROVE  /\ ObserveProtocol(ProtocolSeen(l), x) = ProtocolSeen(Append(l, x))
         /\ ObserveHybrid(HybridSeen(l), x) = HybridSeen(Append(l, x))
<1> DEFINE u == Append(l, x)
           Fields == {"total", "eligible", "valid", "reasons", "gaps", "feature", "future"}
<1>1. ASSUME NEW g, NEW f, NEW h
      PROVE  LET c == Seen(u, g, f, h)
             IN  /\ c = [k \in Fields |-> c[k]] /\ c.gaps = g /\ c.feature = f /\ c.future = h
                 /\ c.total = Len(u) /\ c.eligible = EligibleCount(u) /\ c.valid = ValidCount(u)
                 /\ c.reasons = InvalidReasons(u)
  BY DEF Seen
<1>2. ASSUME NEW c, c = [k \in Fields |-> c[k]],
             c.total = Len(u), c.eligible = EligibleCount(u), c.valid = ValidCount(u),
             c.reasons = InvalidReasons(u)
      PROVE  c = Seen(u, c.gaps, c.feature, c.future)
  <2> DEFINE w == Seen(u, c.gaps, c.feature, c.future)
  <2>1. /\ w = [k \in Fields |-> w[k]] /\ w.gaps = c.gaps /\ w.feature = c.feature /\ w.future = c.future
        /\ w.total = Len(u) /\ w.eligible = EligibleCount(u) /\ w.valid = ValidCount(u)
        /\ w.reasons = InvalidReasons(u)
    BY DEF Seen
  <2> HIDE DEF w, u
  <2>2. \A k \in Fields : w[k] = c[k]
    BY <1>2, <2>1
  <2> HIDE DEF Fields
  <2>3. c = w
    BY <1>2, <2>1, <2>2
  <2> QED BY <2>3 DEF w
<1>3. ObserveProtocol(ProtocolSeen(l), x) = ProtocolSeen(u)
  <2> DEFINE c == Seen(u, Values(l, "gap"), << >>, << >>)
             r == [c EXCEPT !.gaps = Kept(c.gaps, x.gap)]
  <2>1. Observed(ProtocolSeen(l), x) = c
    BY ObservedMore DEF ProtocolSeen
  <2>2. ObserveProtocol(ProtocolSeen(l), x) = r
    BY <2>1 DEF ObserveProtocol
  <2>3. /\ c = [k \in Fields |-> c[k]] /\ c.gaps = Values(l, "gap") /\ c.feature = << >> /\ c.future = << >>
        /\ c.total = Len(u) /\ c.eligible = EligibleCount(u) /\ c.valid = ValidCount(u)
        /\ c.reasons = InvalidReasons(u)
    BY <1>1
  <2> HIDE DEF c
  <2>4. /\ r = [k \in Fields |-> r[k]] /\ r.gaps = Kept(c.gaps, x.gap)
        /\ r.feature = c.feature /\ r.future = c.future
        /\ r.total = c.total /\ r.eligible = c.eligible /\ r.valid = c.valid /\ r.reasons = c.reasons
    <3>1. DOMAIN c = Fields
      BY <2>3
    <3> QED BY <3>1
  <2> HIDE DEF r, Fields
  <2>5. r = Seen(u, r.gaps, r.feature, r.future)
    BY <1>2, <2>3, <2>4
  <2>6. Values(u, "gap") = Kept(Values(l, "gap"), x.gap)
    BY ValuesMore
  <2> QED BY <2>2, <2>3, <2>4, <2>5, <2>6 DEF ProtocolSeen
<1>4. ObserveHybrid(HybridSeen(l), x) = HybridSeen(u)
  <2> DEFINE c == Seen(u, << >>, Values(l, "featureLag"), Values(l, "futureLag"))
             r == [c EXCEPT !.feature = Kept(c.feature, x.featureLag), !.future = Kept(c.future, x.futureLag)]
  <2>1. Observed(HybridSeen(l), x) = c
    BY ObservedMore DEF HybridSeen
  <2>3. /\ c = [k \in Fields |-> c[k]] /\ c.gaps = << >>
        /\ c.feature = Values(l, "featureLag") /\ c.future = Values(l, "futureLag")
        /\ c.total = Len(u) /\ c.eligible = EligibleCount(u) /\ c.valid = ValidCount(u)
        /\ c.reasons = InvalidReasons(u)
    BY <1>1
  <2> HIDE DEF c
  <2> DEFINE o == ObserveHybrid(HybridSeen(l), x)
  <2>4. /\ o = [k \in Fields |-> o[k]] /\ o.feature = Kept(c.feature, x.featureLag)
        /\ o.future = Kept(c.future, x.futureLag) /\ o.gaps = c.gaps
        /\ o.total = c.total /\ o.eligible = c.eligible /\ o.valid = c.valid /\ o.reasons = c.reasons
    <3>1. DOMAIN c = Fields
      BY <2>3
    <3> QED BY <2>1, <3>1 DEF ObserveHybrid
  <2> HIDE DEF o, Fields
  <2>5. o = Seen(u, o.gaps, o.feature, o.future)
    BY <1>2, <2>3, <2>4
  <2>6. /\ Values(u, "featureLag") = Kept(Values(l, "featureLag"), x.featureLag)
        /\ Values(u, "futureLag") = Kept(Values(l, "futureLag"), x.futureLag)
    BY ValuesMore
  <2>7. o = HybridSeen(u)
    BY <2>3, <2>4, <2>5, <2>6 DEF HybridSeen
  <2> QED BY <2>7 DEF o
<1> QED BY <1>3, <1>4 DEF u

\* Of no labels there is nothing.
LEMMA NothingSeen == ProtocolSeen(<< >>) = NoCount /\ HybridSeen(<< >>) = NoCount
<1>1. InvalidReasons(<< >>) = [r \in {} |-> 0]
  <2>1. Len(<< >>) \in Nat /\ DOMAIN << >> = 1 .. Len(<< >>)
    OBVIOUS
  <2>2. {<< >>[i].reason : i \in Invalids(<< >>)} = {}
    BY DEF Invalids
  <2>3. InvalidReasons(<< >>) = [r \in {<< >>[i].reason : i \in Invalids(<< >>)} |-> Cardinality(ForReason(<< >>, r))]
    BY <2>1, ReasonsOf
  <2> QED BY <2>2, <2>3
<1>2. \A field : Values(<< >>, field) = << >>
  <2> TAKE field
  <2>1. [i \in DOMAIN << >> |-> << >>[i][field]] = << >>
    OBVIOUS
  <2> QED BY <2>1, NothingPicked DEF Values, Those
<1>3. EligibleCount(<< >>) = 0 /\ ValidCount(<< >>) = 0
  <2>1. {i \in DOMAIN << >> : << >>[i].eligible} = {} /\ {i \in DOMAIN << >> : << >>[i].valid} = {}
    OBVIOUS
  <2>2. Cardinality({}) = 0
    BY FS_EmptySet
  <2> QED BY <2>1, <2>2 DEF EligibleCount, ValidCount
<1>4. Len(<< >>) = 0
  OBVIOUS
<1> QED BY <1>1, <1>2, <1>3, <1>4 DEF ProtocolSeen, HybridSeen, Seen, NoCount

\* ProtocolMetricAccumulator has counted every label.
LEMMA ProtocolCounted ==
  ASSUME NEW S, NEW labs \in Seq(S)
  PROVE  Folded(ObserveProtocol, NoCount, labs) = ProtocolSeen(labs)
<1> DEFINE n == Len(labs)
           g == [k \in 0 .. n |-> ProtocolSeen(SubSeq(labs, 1, k))]
           after == CHOOSE f : f = [k \in 0 .. n |-> IF k = 0 THEN NoCount ELSE ObserveProtocol(f[k - 1], labs[k])]
<1>1. Folded(ObserveProtocol, NoCount, labs) = after[n]
  BY DEF Folded
<1>2. n \in Nat
  OBVIOUS
<1>3. g[0] = NoCount /\ g[n] = ProtocolSeen(labs)
  <2>1. SubSeq(labs, 1, 0) = << >> /\ SubSeq(labs, 1, n) = labs /\ 0 \in 0 .. n /\ n \in 0 .. n
    <3>1. SubSeq(labs, 1, 0) = << >> /\ SubSeq(labs, 1, Len(labs)) = labs
      BY PrefixGrows
    <3> QED BY <1>2, <3>1
  <2> HIDE DEF n
  <2> QED BY <2>1, NothingSeen
<1>4. \A k \in 1 .. n : g[k] = ObserveProtocol(g[k - 1], labs[k])
  <2> TAKE k \in 1 .. n
  <2>1. /\ SubSeq(labs, 1, k - 1) \in Seq(S) /\ labs[k] \in S
        /\ SubSeq(labs, 1, k) = Append(SubSeq(labs, 1, k - 1), labs[k])
    BY PrefixGrows
  <2>2. k \in 0 .. n /\ k - 1 \in 0 .. n
    BY <1>2
  <2> DEFINE u == SubSeq(labs, 1, k - 1)
             x == labs[k]
  <2>3. ObserveProtocol(ProtocolSeen(u), x) = ProtocolSeen(Append(u, x))
    <3>1. u \in Seq(S) /\ x \in S
      BY <2>1
    <3> HIDE DEF u, x
    <3> QED BY <3>1, TotalsMore
  <2> QED BY <2>1, <2>2, <2>3
<1>5. g = [k \in 0 .. n |-> IF k = 0 THEN NoCount ELSE ObserveProtocol(g[k - 1], labs[k])]
  <2>1. g = [k \in 0 .. n |-> g[k]]
    OBVIOUS
  <2> HIDE DEF g
  <2>2. \A k \in 0 .. n : k # 0 => k \in 1 .. n
    BY <1>2
  <2>3. \A k \in 0 .. n : g[k] = IF k = 0 THEN NoCount ELSE ObserveProtocol(g[k - 1], labs[k])
    BY <1>3, <1>4, <2>2
  <2> QED BY <2>1, <2>3
<1>6. after = [k \in 0 .. n |-> IF k = 0 THEN NoCount ELSE ObserveProtocol(after[k - 1], labs[k])]
  <2> HIDE DEF g
  <2> QED BY <1>5
<1> HIDE DEF after, g
<1>7. \A k \in 1 .. n : after[k - 1] = g[k - 1] => after[k] = g[k]
  <2>1. \A k \in 1 .. n : k \in 0 .. n /\ k # 0
    BY <1>2
  <2>2. \A k \in 1 .. n : after[k] = ObserveProtocol(after[k - 1], labs[k])
    BY <1>6, <2>1
  <2> QED BY <1>4, <2>2
<1>8. after[0] = g[0]
  <2>1. 0 \in 0 .. n
    BY <1>2
  <2> QED BY <1>3, <1>6, <2>1
<1> HIDE DEF n
<1>9. after[n] = g[n]
  BY <1>2, <1>7, <1>8, SameFold
<1> QED BY <1>1, <1>3, <1>9

\* HybridMetricAccumulator has counted every label.
LEMMA HybridCounted ==
  ASSUME NEW S, NEW labs \in Seq(S)
  PROVE  Folded(ObserveHybrid, NoCount, labs) = HybridSeen(labs)
<1> DEFINE n == Len(labs)
           g == [k \in 0 .. n |-> HybridSeen(SubSeq(labs, 1, k))]
           after == CHOOSE f : f = [k \in 0 .. n |-> IF k = 0 THEN NoCount ELSE ObserveHybrid(f[k - 1], labs[k])]
<1>1. Folded(ObserveHybrid, NoCount, labs) = after[n]
  BY DEF Folded
<1>2. n \in Nat
  OBVIOUS
<1>3. g[0] = NoCount /\ g[n] = HybridSeen(labs)
  <2>1. SubSeq(labs, 1, 0) = << >> /\ SubSeq(labs, 1, n) = labs /\ 0 \in 0 .. n /\ n \in 0 .. n
    <3>1. SubSeq(labs, 1, 0) = << >> /\ SubSeq(labs, 1, Len(labs)) = labs
      BY PrefixGrows
    <3> QED BY <1>2, <3>1
  <2> HIDE DEF n
  <2> QED BY <2>1, NothingSeen
<1>4. \A k \in 1 .. n : g[k] = ObserveHybrid(g[k - 1], labs[k])
  <2> TAKE k \in 1 .. n
  <2>1. /\ SubSeq(labs, 1, k - 1) \in Seq(S) /\ labs[k] \in S
        /\ SubSeq(labs, 1, k) = Append(SubSeq(labs, 1, k - 1), labs[k])
    BY PrefixGrows
  <2>2. k \in 0 .. n /\ k - 1 \in 0 .. n
    BY <1>2
  <2> DEFINE u == SubSeq(labs, 1, k - 1)
             x == labs[k]
  <2>3. ObserveHybrid(HybridSeen(u), x) = HybridSeen(Append(u, x))
    <3>1. u \in Seq(S) /\ x \in S
      BY <2>1
    <3> HIDE DEF u, x
    <3> QED BY <3>1, TotalsMore
  <2> QED BY <2>1, <2>2, <2>3
<1>5. g = [k \in 0 .. n |-> IF k = 0 THEN NoCount ELSE ObserveHybrid(g[k - 1], labs[k])]
  <2>1. g = [k \in 0 .. n |-> g[k]]
    OBVIOUS
  <2> HIDE DEF g
  <2>2. \A k \in 0 .. n : k # 0 => k \in 1 .. n
    BY <1>2
  <2>3. \A k \in 0 .. n : g[k] = IF k = 0 THEN NoCount ELSE ObserveHybrid(g[k - 1], labs[k])
    BY <1>3, <1>4, <2>2
  <2> QED BY <2>1, <2>3
<1>6. after = [k \in 0 .. n |-> IF k = 0 THEN NoCount ELSE ObserveHybrid(after[k - 1], labs[k])]
  <2> HIDE DEF g
  <2> QED BY <1>5
<1> HIDE DEF after, g
<1>7. \A k \in 1 .. n : after[k - 1] = g[k - 1] => after[k] = g[k]
  <2>1. \A k \in 1 .. n : k \in 0 .. n /\ k # 0
    BY <1>2
  <2>2. \A k \in 1 .. n : after[k] = ObserveHybrid(after[k - 1], labs[k])
    BY <1>6, <2>1
  <2> QED BY <1>4, <2>2
<1>8. after[0] = g[0]
  <2>1. 0 \in 0 .. n
    BY <1>2
  <2> QED BY <1>3, <1>6, <2>1
<1> HIDE DEF n
<1>9. after[n] = g[n]
  BY <1>2, <1>7, <1>8, SameFold
<1> QED BY <1>1, <1>3, <1>9

\* Counted label by label or all at once, the totals are the same.
LEMMA TotalsAreMetrics ==
  ASSUME NEW S, NEW l \in Seq(S), \A i \in DOMAIN l : l[i].valid => l[i].eligible
  PROVE  ProtocolTotals(l) = ProtocolMetrics(l) /\ HybridTotals(l) = HybridMetrics(l)
<1> DEFINE eligible == {i \in DOMAIN l : l[i].eligible}
<1>1. {i \in eligible : l[i].valid} = {i \in DOMAIN l : l[i].valid}
  OBVIOUS
<1>2. Cardinality(eligible) = EligibleCount(l) /\ Cardinality({i \in eligible : l[i].valid}) = ValidCount(l)
  BY <1>1 DEF EligibleCount, ValidCount
<1>3. ProtocolTotals(l) = ProtocolResult(ProtocolSeen(l)) /\ HybridTotals(l) = HybridResult(HybridSeen(l))
  BY ProtocolCounted, HybridCounted DEF ProtocolTotals, HybridTotals
<1>4. ProtocolMetrics(l) = [total |-> Len(l), eligible |-> EligibleCount(l), valid |-> ValidCount(l),
                            reasons |-> InvalidReasons(l), p50 |-> Percentile(Values(l, "gap"), 50),
                            p95 |-> Percentile(Values(l, "gap"), 95)]
  BY <1>2 DEF ProtocolMetrics
<1>5. HybridMetrics(l) = [total |-> Len(l), eligible |-> EligibleCount(l), valid |-> ValidCount(l),
                          reasons |-> InvalidReasons(l),
                          feature95 |-> Percentile(Values(l, "featureLag"), 95),
                          future95 |-> Percentile(Values(l, "futureLag"), 95)]
  BY <1>2 DEF HybridMetrics
<1> HIDE DEF eligible
<1>6. ProtocolResult(ProtocolSeen(l)) = ProtocolMetrics(l)
  BY <1>4 DEF ProtocolResult, ProtocolSeen, Seen
<1>7. HybridResult(HybridSeen(l)) = HybridMetrics(l)
  BY <1>5 DEF HybridResult, HybridSeen, Seen
<1> QED BY <1>3, <1>6, <1>7

-----------------------------------------------------------------------------
(* All that 4.2H reads, and the verdict on its samples. *)

\* The failure that ends the reading of the samples is the verdict of 4.2 on the file.
LEMMA FailureIsVerdict ==
  ASSUME NEW file, file = NoFile \/ file \in Seq(SampleRow \cup {Torn})
  PROVE  IngestFailure(file, SamplesRead(Lines(file))) = NoReason <=> ValidateCleanSamples(file).valid
<1> DEFINE lines == Lines(file)
           clear == SamplesRead(lines)
           objects == {k \in DOMAIN lines : lines[k] # Torn}
           bad == {k \in DOMAIN lines : ~IsClean(lines[k])}
<1>1. clear.objects = Cardinality(objects) /\ clear.invalid = Cardinality(bad)
  BY DEF SamplesRead
<1>2. lines \in Seq(SampleRow \cup {Torn}) /\ Len(lines) \in Nat /\ DOMAIN lines = 1 .. Len(lines)
  BY DEF Lines
<1> HIDE DEF lines
<1>3. /\ Cardinality(objects) \in Nat /\ (Cardinality(objects) = 0 <=> objects = {})
      /\ Cardinality(bad) \in Nat /\ (Cardinality(bad) = 0 <=> bad = {})
  <2>1. ASSUME NEW T \in SUBSET (1 .. Len(lines)) PROVE Cardinality(T) \in Nat /\ (Cardinality(T) = 0 <=> T = {})
    <3>1. IsFiniteSet(1 .. Len(lines))
      BY <1>2, FS_Interval
    <3>2. IsFiniteSet(T) /\ Cardinality(T) \in Nat
      BY <3>1, FS_Subset, FS_CardinalityType
    <3>3. Cardinality({}) = 0
      BY FS_EmptySet
    <3> QED BY <1>2, <3>2, <3>3, EmptyCount
  <2>2. objects \in SUBSET (1 .. Len(lines)) /\ bad \in SUBSET (1 .. Len(lines))
    BY <1>2
  <2> HIDE DEF objects, bad
  <2> QED BY <2>1, <2>2
<1> HIDE DEF clear
<1>4. CASE file = NoFile
  BY <1>4 DEF IngestFailure, ValidateCleanSamples, NoReason
<1>5. CASE file # NoFile /\ file = << >>
  <2>1. objects = {}
    BY <1>5 DEF lines, Lines
  <2> HIDE DEF objects, bad
  <2>2. IngestFailure(file, clear) = "INPUT_EMPTY"
    BY <1>1, <1>3, <1>5, <2>1 DEF IngestFailure
  <2>3. ~ValidateCleanSamples(file).valid
    BY <1>5 DEF ValidateCleanSamples
  <2> QED BY <2>2, <2>3 DEF NoReason, clear, lines
<1>6. CASE file # NoFile /\ file # << >>
  <2>1. lines = file
    BY <1>6 DEF lines, Lines
  <2>2. ValidateCleanSamples(file).valid <=> bad = {}
    <3>1. bad = {k \in DOMAIN file : ~IsClean(file[k])}
      BY <2>1
    <3> HIDE DEF bad
    <3> QED BY <1>6, <3>1 DEF ValidateCleanSamples
  <2>3. objects = {} => bad # {}
    <3>1. 1 \in DOMAIN lines
      BY <1>2, <1>6, <2>1
    <3>2. lines[1] = Torn => ~IsClean(lines[1])
      BY DEF IsClean
    <3> QED BY <3>1, <3>2
  <2> HIDE DEF objects, bad
  <2>4. IngestFailure(file, clear) = NoReason <=> objects # {} /\ bad = {}
    <3>1. clear.objects = 0 <=> objects = {}
      BY <1>1, <1>3
    <3>2. clear.invalid > 0 <=> bad # {}
      BY <1>1, <1>3
    <3> QED BY <1>6, <3>1, <3>2 DEF IngestFailure, NoReason
  <2> QED BY <2>2, <2>3, <2>4 DEF clear, lines
<1> QED BY <1>4, <1>5, <1>6

\* The clean samples of a file, and the events of its sources.
CleanIn(file) == Those(Lines(file), IsClean)

SeenAll(file, files) == [s \in Source |-> SeenIn(file, files, s)]

LEMMA CleanInValid ==
  ASSUME NEW file, file = NoFile \/ file \in Seq(SampleRow \cup {Torn}), ValidateCleanSamples(file).valid
  PROVE  CleanIn(file) = file /\ ValidateCleanSamples(file).samples = file
<1>1. file # NoFile
  BY DEF ValidateCleanSamples
<1>2. file \in Seq(SampleRow \cup {Torn}) /\ Lines(file) = file
  BY <1>1 DEF Lines
<1>3. AllClean(file) /\ ValidateCleanSamples(file).samples = file
  BY <1>2, ValidFile
<1>4. \A k \in DOMAIN file : IsClean(file[k])
  <2> SUFFICES ASSUME NEW k \in DOMAIN file PROVE file[k] # Torn /\ CleanSampleErrors(file[k]) = {}
    BY DEF IsClean
  <2>1. file[k] \in SampleRow /\ CleanSampleErrors(file[k]) = {}
    BY <1>3 DEF AllClean
  <2> QED BY <2>1, PipelineAssumption
<1>5. DOMAIN file \subseteq {k \in DOMAIN file : IsClean(file[k])}
  BY <1>4
<1>6. Picked(file, {k \in DOMAIN file : IsClean(file[k])}) = file
  BY <1>2, <1>5, PickedAll
<1> QED BY <1>2, <1>3, <1>6 DEF CleanIn, Those

LEMMA AllAreSeen ==
  ASSUME NEW file, file = NoFile \/ file \in Seq(SampleRow \cup {Torn}),
         NEW files \in [Feed -> {NoFile} \cup Seq(EventRow \cup {Torn})]
  PROVE  /\ CleanIn(file) \in Seq(CleanRow)
         /\ SeenIn(file, files, Depthmid) = DepthEvents(CleanIn(file))
         /\ \A s \in Source : SeenIn(file, files, s) \in Seq(SeenRow)
<1>1. CleanIn(file) \in Seq(CleanRow)
  <2>1. \A line \in SampleRow \cup {Torn} : IsClean(line) => line \in CleanRow
    BY DEF IsClean, CleanRow
  <2> DEFINE t == Lines(file)
             at == {k \in DOMAIN t : IsClean(t[k])}
  <2>2. t \in Seq(SampleRow \cup {Torn})
    BY DEF Lines
  <2>3. \A k \in 1 .. Len(t) : k \in at => t[k] \in CleanRow
    <3> HIDE DEF t
    <3> QED BY <2>1, <2>2
  <2>4. Len(t) \in Nat
    BY <2>2
  <2>5. CleanIn(file) = Picked(t, at)
    BY DEF CleanIn, Those
  <2> HIDE DEF t, at
  <2> QED BY <2>3, <2>4, <2>5, PickedFrom
<1>2. SeenIn(file, files, Depthmid) = DepthEvents(CleanIn(file))
  BY DEF SeenIn, DepthEvents, CleanIn
<1>3. DepthEvents(CleanIn(file)) \in Seq(SeenRow)
  <2> DEFINE C == CleanIn(file)
  <2>1. C \in Seq(CleanRow)
    BY <1>1
  <2> HIDE DEF C
  <2>2. \A i \in DOMAIN C : DepthReferenceEvent(C[i]) \in SeenRow
    <3>1. \A i \in DOMAIN C : C[i] \in CleanRow
      BY <2>1
    <3> QED BY <3>1, DepthEvent
  <2>3. DepthEvents(C) \in Seq(SeenRow)
    <3>1. DOMAIN C = 1 .. Len(C) /\ Len(C) \in Nat
      BY <2>1
    <3> QED BY <2>2, <3>1 DEF DepthEvents
  <2> QED BY <2>3 DEF C
<1>4. ASSUME NEW s \in Source PROVE SeenIn(file, files, s) \in Seq(SeenRow)
  <2>1. CASE s = Depthmid
    BY <1>2, <1>3, <2>1
  <2>2. CASE s # Depthmid
    <3>1. s \in Feed
      BY <2>2 DEF Source
    <3>2. files[s] = NoFile \/ files[s] \in Seq(EventRow \cup {Torn})
      BY <3>1
    <3>3. Those(Lines(files[s]), IsReference) \in Seq(SeenRow)
      BY <3>2, FeedIsSeen
    <3> QED BY <2>2, <3>3 DEF SeenIn
  <2> QED BY <2>1, <2>2
<1> QED BY <1>1, <1>2, <1>4

\* The schema found while reading is the one found in the lists.
LEMMA SchemaIsSame ==
  ASSUME NEW C \in Seq(CleanRow), NEW E, \A s \in Source : E[s] \in Seq(SeenRow),
         NEW clear, clear.dated = Cardinality(DatedSamples(C)),
         NEW stats, \A s \in Source : stats[s].dated = Cardinality(DatedAt(E[s]))
  PROVE  StreamingSchema(clear, stats) = TimestampSchema(C, E)
<1>1. ASSUME NEW n \in Nat, NEW T \in SUBSET (1 .. n)
      PROVE  /\ Cardinality(T) > 0 <=> T # {}
             /\ Cardinality(T) = 0 <=> T = {}
  <2>1. IsFiniteSet(1 .. n)
    BY FS_Interval
  <2>2. IsFiniteSet(T) /\ Cardinality(T) \in Nat
    BY <2>1, FS_Subset, FS_CardinalityType
  <2>3. Cardinality({}) = 0
    BY FS_EmptySet
  <2>4. Cardinality(T) = 0 => T = {}
    BY EmptyCount
  <2> DEFINE c == Cardinality(T)
  <2>5. c \in Nat /\ (c = 0 <=> T = {})
    BY <2>2, <2>3, <2>4
  <2> HIDE DEF c
  <2>6. c > 0 <=> ~(c = 0)
    BY <2>5
  <2> QED BY <2>5, <2>6 DEF c
<1> DEFINE features == \E i \in DOMAIN C : C[i].exchange # NoValue
           dated(s) == \E k \in DOMAIN E[s] : HasExchangeTime(E[s][k])
<1>2. (clear.dated > 0 <=> features) /\ (clear.dated = 0 <=> ~features)
  <2>1. Len(C) \in Nat /\ DatedSamples(C) \in SUBSET (1 .. Len(C))
    BY DEF DatedSamples
  <2>2. features <=> DatedSamples(C) # {}
    BY DEF DatedSamples
  <2> HIDE DEF features
  <2> QED BY <1>1, <2>1, <2>2
<1>3. ASSUME NEW s \in Source
      PROVE  (stats[s].dated > 0 <=> dated(s)) /\ (stats[s].dated = 0 <=> ~dated(s))
  <2>1. E[s] \in Seq(SeenRow)
    OBVIOUS
  <2>2. Len(E[s]) \in Nat /\ DatedAt(E[s]) \in SUBSET (1 .. Len(E[s]))
    BY <2>1 DEF DatedAt
  <2>3. dated(s) <=> DatedAt(E[s]) # {}
    BY DEF DatedAt
  <2> HIDE DEF dated
  <2> QED BY <1>1, <2>2, <2>3
<1>4. ASSUME NEW s \in Source
      PROVE  StreamingSchema(clear, stats)[s] = TimestampSchema(C, E)[s]
  <2>1. StreamingSchema(clear, stats)[s]
          = [supported |-> clear.dated > 0 /\ stats[s].dated > 0,
             reason |-> IF clear.dated = 0 THEN "missing_feature_exchange_timestamp"
                        ELSE IF stats[s].dated = 0 THEN "missing_exchange_timestamp" ELSE NoReason]
    BY DEF StreamingSchema
  <2>2. TimestampSchema(C, E)[s]
          = [supported |-> features /\ dated(s),
             reason |-> IF ~features THEN "missing_feature_exchange_timestamp"
                        ELSE IF ~dated(s) THEN "missing_exchange_timestamp" ELSE NoReason]
    BY DEF TimestampSchema
  <2> HIDE DEF features, dated
  <2>3. (clear.dated > 0 /\ stats[s].dated > 0) = (features /\ dated(s))
    BY <1>2, <1>3
  <2>4. (IF clear.dated = 0 THEN "missing_feature_exchange_timestamp"
         ELSE IF stats[s].dated = 0 THEN "missing_exchange_timestamp" ELSE NoReason)
          = (IF ~features THEN "missing_feature_exchange_timestamp"
             ELSE IF ~dated(s) THEN "missing_exchange_timestamp" ELSE NoReason)
    BY <1>2, <1>3
  <2> QED BY <2>1, <2>2, <2>3, <2>4
<1>5. /\ StreamingSchema(clear, stats) = [s \in Source |-> StreamingSchema(clear, stats)[s]]
      /\ TimestampSchema(C, E) = [s \in Source |-> TimestampSchema(C, E)[s]]
  BY DEF StreamingSchema, TimestampSchema
<1> QED BY <1>4, <1>5

\* Everything 4.2H reads is what the other programs read.
LEMMA StreamIsRead ==
  ASSUME NEW file, file = NoFile \/ file \in Seq(SampleRow \cup {Torn}),
         NEW files \in [Feed -> {NoFile} \cup Seq(EventRow \cup {Torn})], NEW summary
  PROVE  LET result == StreamFinalization(file, files, summary)
             C == CleanIn(file)
             E == SeenAll(file, files)
             schema == TimestampSchema(C, E)
         IN  /\ result.rows = [i \in DOMAIN C |-> StreamLabelRow(C[i], E, schema, summary)]
             /\ result.failure = NoReason <=> ValidateCleanSamples(file).valid
             /\ \A s \in Source :
                  /\ result.reports[s] = StreamSourceReport(result.rows, s, schema)
                  /\ result.leaks[s] = StreamLeaks(result.rows, s)
                  /\ result.stats[s].backwards = Backwards(E[s])
                  /\ result.stats[s].over = GapDistribution(E[s]).over
                  /\ result.stats[s].overTotal = GapDistribution(E[s]).overTotal
<1> DEFINE result == StreamFinalization(file, files, summary)
           C == CleanIn(file)
           E == SeenAll(file, files)
           schema == TimestampSchema(C, E)
           clear == IngestCleanSamples(file)
           feed == [f \in Feed |-> IngestReferenceFile(files[f])]
           stats == [s \in Source |-> IF s = Depthmid THEN clear.stats ELSE feed[s].stats]
           tables == [s \in Source |-> IF s = Depthmid THEN clear.table ELSE feed[s].table]
           made == StreamingSchema(clear, stats)
           rows == [i \in DOMAIN clear.samples |-> StreamLabelRow(clear.samples[i], tables, made, summary)]
<1>1. /\ result.rows = rows /\ result.failure = IngestFailure(file, clear) /\ result.stats = stats
      /\ result.leaks = [s \in Source |-> StreamLeaks(rows, s)]
      /\ result.reports = [s \in Source |-> StreamSourceReport(rows, s, made)]
  BY DEF StreamFinalization
<1>2. /\ clear.samples = C /\ clear.table = DepthEvents(C)
      /\ clear.dated = Cardinality(DatedSamples(C)) /\ clear.stats = StatsOf(DepthEvents(C), 0, 0)
  <2>1. clear = SamplesRead(Lines(file))
    BY SamplesAreRead
  <2> HIDE DEF clear
  <2> QED BY <2>1 DEF SamplesRead, CleanIn
<1>3. result.failure = NoReason <=> ValidateCleanSamples(file).valid
  <2>1. clear = SamplesRead(Lines(file))
    BY SamplesAreRead
  <2> HIDE DEF clear, result
  <2> QED BY <1>1, <2>1, FailureIsVerdict
<1>4. C \in Seq(CleanRow) /\ \A s \in Source : E[s] = SeenIn(file, files, s) /\ E[s] \in Seq(SeenRow)
  BY AllAreSeen DEF SeenAll
<1>5. ASSUME NEW s \in Source
      PROVE  tables[s] = E[s] /\ \E n, m : stats[s] = StatsOf(E[s], n, m)
  <2>1. CASE s = Depthmid
    <3>1. E[s] = DepthEvents(C)
      BY <1>4, <2>1, AllAreSeen
    <3>2. tables[s] = clear.table /\ stats[s] = clear.stats
      BY <2>1
    <3> HIDE DEF tables, stats, clear, E
    <3> QED BY <1>2, <3>1, <3>2
  <2>2. CASE s # Depthmid
    <3>1. s \in Feed
      BY <2>2 DEF Source
    <3>2. files[s] = NoFile \/ files[s] \in Seq(EventRow \cup {Torn})
      BY <3>1
    <3>3. IngestReferenceFile(files[s]) = FeedRead(Lines(files[s]))
      BY <3>2, FeedIsRead
    <3>4. tables[s] = feed[s].table /\ stats[s] = feed[s].stats /\ feed[s] = FeedRead(Lines(files[s]))
      BY <2>2, <3>1, <3>3
    <3> DEFINE t == Lines(files[s])
    <3>5. E[s] = Those(t, IsReference)
      BY <1>4, <2>2 DEF SeenIn
    <3> HIDE DEF E, tables, stats, feed, t
    <3>6. /\ FeedRead(t).table = Those(t, IsReference)
          /\ FeedRead(t).stats = StatsOf(Those(t, IsReference), Len(t), Cardinality({k \in DOMAIN t : ~IsReference(t[k])}))
      BY DEF FeedRead
    <3> QED BY <3>4, <3>5, <3>6 DEF t
  <2> QED BY <2>1, <2>2
<1>6. tables = E
  <2>1. tables = [s \in Source |-> tables[s]] /\ E = [s \in Source |-> E[s]]
    BY DEF SeenAll
  <2> HIDE DEF tables, E, stats
  <2> QED BY <1>5, <2>1
<1>7. ASSUME NEW s \in Source
      PROVE  /\ stats[s].dated = Cardinality(DatedAt(E[s])) /\ stats[s].backwards = Backwards(E[s])
             /\ stats[s].over = GapDistribution(E[s]).over
             /\ stats[s].overTotal = GapDistribution(E[s]).overTotal
  <2>1. PICK n, m : stats[s] = StatsOf(E[s], n, m)
    BY <1>5
  <2> HIDE DEF stats, E
  <2>2. /\ stats[s].dated = Cardinality(DatedAt(E[s])) /\ stats[s].backwards = Backwards(E[s])
        /\ stats[s].over = Cardinality(Wide(Forward(E[s])))
        /\ stats[s].overTotal = Folded(Overrun, 0, Forward(E[s]))
    BY <2>1 DEF StatsOf
  <2>3. /\ GapDistribution(E[s]).over = Cardinality(Wide(Forward(E[s])))
        /\ GapDistribution(E[s]).overTotal = Folded(Overrun, 0, Forward(E[s]))
    BY DEF GapDistribution, Forward, Wide
  <2> QED BY <2>2, <2>3
<1>8. made = schema
  <2> HIDE DEF clear, stats, C, E
  <2> QED BY <1>2, <1>4, <1>7, SchemaIsSame
<1>9. rows = [i \in DOMAIN C |-> StreamLabelRow(C[i], E, schema, summary)]
  <2> HIDE DEF made, schema, clear, tables, C, E
  <2> QED BY <1>2, <1>6, <1>8
<1> HIDE DEF rows, made, stats, tables, clear, feed
<1>10. \A s \in Source : /\ result.reports[s] = StreamSourceReport(result.rows, s, schema)
                         /\ result.leaks[s] = StreamLeaks(result.rows, s)
  <2> HIDE DEF result, schema
  <2> QED BY <1>1, <1>8
<1>11. \A s \in Source :
         /\ result.stats[s].backwards = Backwards(E[s])
         /\ result.stats[s].over = GapDistribution(E[s]).over
         /\ result.stats[s].overTotal = GapDistribution(E[s]).overTotal
  <2> HIDE DEF result, E
  <2> QED BY <1>1, <1>7
<1>12. result.rows = [i \in DOMAIN C |-> StreamLabelRow(C[i], E, schema, summary)]
  BY <1>1, <1>9
<1> HIDE DEF result, C, E, schema
<1> QED BY <1>3, <1>10, <1>11, <1>12 DEF result, C, E, schema

-----------------------------------------------------------------------------
(* In a table kept in receive order, queries and counts are what a bisection finds. *)

\* A list that is in order is the one it is sorted into.
LEMMA SortedAlready ==
  ASSUME NEW n \in Nat, NEW s, s = [m \in 1 .. n |-> s[m]], NEW keys,
         \A j \in 1 .. n : keys[j] \in Int, IsOrdered(keys, n)
  PROVE  SortedBy(s, keys) = s
<1>1. ASSUME NEW k \in 1 .. n PROVE Cardinality(Ahead(keys, n, k)) = k - 1
  <2>1. \A j \in 1 .. n : j \in Ahead(keys, n, k) <=> j < k
    <3> TAKE j \in 1 .. n
    <3>1. keys[j] \in Int /\ keys[k] \in Int
      OBVIOUS
    <3>2. (j <= k => keys[j] <= keys[k]) /\ (k <= j => keys[k] <= keys[j])
      BY DEF IsOrdered
    <3>3. j < k => keys[j] < keys[k] \/ keys[j] = keys[k]
      BY <3>1, <3>2
    <3>4. keys[j] < keys[k] => j < k
      BY <3>1, <3>2
    <3> QED BY <3>3, <3>4 DEF Ahead
  <2>2. Ahead(keys, n, k) = 1 .. k - 1
    <3>1. \A j : j \in 1 .. k - 1 <=> j \in 1 .. n /\ j < k
      OBVIOUS
    <3>2. Ahead(keys, n, k) \subseteq 1 .. n
      BY DEF Ahead
    <3> QED BY <2>1, <3>1, <3>2
  <2>3. Cardinality(1 .. k - 1) = k - 1
    BY FS_Interval
  <2> QED BY <2>2, <2>3
<1>2. ASSUME NEW m \in 1 .. n PROVE ByRank(keys, n)[m] = m
  <2>1. \A k \in 1 .. n : Cardinality(Ahead(keys, n, k)) = m - 1 <=> k = m
    BY <1>1
  <2>2. ByRank(keys, n)[m] = CHOOSE k \in 1 .. n : Cardinality(Ahead(keys, n, k)) = m - 1
    BY DEF ByRank
  <2> QED BY <2>1, <2>2
<1>3. DOMAIN s = 1 .. n
  OBVIOUS
<1>4. SortedBy(s, keys) = [m \in 1 .. n |-> s[ByRank(keys, n)[m]]]
  BY <1>3, SortedByRank
<1> QED BY <1>2, <1>4

\* Rows in receive order.
InReceiveOrder(E) == E \in Seq(SeenRow) /\ Backwards(E) = 0

LEMMA OrderedTimes ==
  ASSUME NEW E, InReceiveOrder(E)
  PROVE  /\ E \in Seq(SeenRow) /\ Len(E) \in Nat /\ DOMAIN E = 1 .. Len(E)
         /\ Times(E) \in Seq(Int) /\ Len(Times(E)) = Len(E) /\ IsOrdered(Times(E), Len(E))
         /\ \A k \in 1 .. Len(E) : Times(E)[k] = E[k].ts /\ E[k].ts \in Int /\ E[k] \in SeenRow
         /\ SortedBy(E, Times(E)) = E
<1>1. E \in Seq(SeenRow) /\ Len(E) \in Nat /\ DOMAIN E = 1 .. Len(E) /\ E = [m \in 1 .. Len(E) |-> E[m]]
  BY DEF InReceiveOrder
<1>2. Lists(E, Len(E), Range(E), LocalOf(E))
  BY <1>1, ReceivedInOrder DEF InReceiveOrder
<1>3. Times(E) \in Seq(Int) /\ Len(Times(E)) = Len(E) /\ IsOrdered(Times(E), Len(E))
  BY <1>1, <1>2, LocalTimesOf
<1>4. \A k \in 1 .. Len(E) : Times(E)[k] = E[k].ts /\ E[k] \in SeenRow
  BY <1>1 DEF Times
<1>5. \A k \in 1 .. Len(E) : E[k].ts \in Int /\ Times(E)[k] \in Int
  BY <1>4, SeenTimes
<1>6. SortedBy(E, Times(E)) = E
  BY <1>1, <1>3, <1>5, SortedAlready
<1> QED BY <1>1, <1>3, <1>4, <1>5, <1>6

\* A set of the first positions, counted.
LEMMA CountedFirst ==
  ASSUME NEW n \in Nat, NEW k \in 1 .. n + 1, NEW T, T \subseteq 1 .. n,
         \A j \in 1 .. n : j \in T <=> j < k
  PROVE  Cardinality(T) + 1 = k
<1>1. T = 1 .. k - 1
  <2>1. \A j : j \in 1 .. k - 1 <=> j \in 1 .. n /\ j < k
    OBVIOUS
  <2> QED BY <2>1
<1>2. Cardinality(1 .. k - 1) = k - 1
  BY FS_Interval
<1> QED BY <1>1, <1>2

\* Counting the rows before a time finds the position the bisection finds,
LEMMA CountIsBisect ==
  ASSUME NEW E, InReceiveOrder(E), NEW x \in Int
  PROVE  /\ LocalBefore(E, x) = BisectLeft(Times(E), x, 1)
         /\ LocalUpTo(E, x) = BisectRight(Times(E), x, Len(Times(E)) + 1)
<1> DEFINE n == Len(E)
           a == Times(E)
<1>1. /\ n \in Nat /\ DOMAIN E = 1 .. n /\ a \in Seq(Int) /\ Len(a) = n /\ IsOrdered(a, n)
      /\ \A k \in 1 .. n : a[k] = E[k].ts /\ E[k].ts \in Int
  BY OrderedTimes
<1> HIDE DEF n, a
<1>2. LocalBefore(E, x) = BisectLeft(a, x, 1)
  <2> DEFINE k == BisectLeft(a, x, 1)
             T == {j \in DOMAIN E : E[j].ts < x}
  <2>1. k \in 1 .. n + 1 /\ (\A j \in 1 .. k - 1 : a[j] < x) /\ (\A j \in k .. n : a[j] >= x)
    <3>1. 1 \in 1 .. Len(a) + 1 /\ IsOrdered(a, Len(a))
      BY <1>1
    <3> QED BY <1>1, <3>1, BisectLeftFinds
  <2> HIDE DEF k
  <2>2. \A j \in 1 .. n : j \in T <=> j < k
    <3> TAKE j \in 1 .. n
    <3>1. j < k => j \in 1 .. k - 1
      BY <2>1
    <3>2. ~(j < k) => j \in k .. n
      BY <1>1, <2>1
    <3> QED BY <1>1, <2>1, <3>1, <3>2
  <2>3. T \subseteq 1 .. n
    BY <1>1
  <2> HIDE DEF T
  <2>4. Cardinality(T) + 1 = k
    BY <1>1, <2>1, <2>2, <2>3, CountedFirst
  <2> QED BY <2>4 DEF LocalBefore, T, k
<1>3. LocalUpTo(E, x) = BisectRight(a, x, n + 1)
  <2> DEFINE k == BisectRight(a, x, n + 1)
             T == {j \in DOMAIN E : E[j].ts <= x}
  <2>1. k \in 1 .. n + 1 /\ (\A j \in 1 .. k - 1 : a[j] <= x) /\ (\A j \in k .. n : a[j] > x)
    <3>1. n \in 0 .. Len(a)
      BY <1>1
    <3> QED BY <1>1, <3>1, BisectRightFinds
  <2> HIDE DEF k
  <2>2. \A j \in 1 .. n : j \in T <=> j < k
    <3> TAKE j \in 1 .. n
    <3>1. j < k => j \in 1 .. k - 1
      BY <2>1
    <3>2. ~(j < k) => j \in k .. n
      BY <1>1, <2>1
    <3> QED BY <1>1, <2>1, <3>1, <3>2
  <2>3. T \subseteq 1 .. n
    BY <1>1
  <2> HIDE DEF T
  <2>4. Cardinality(T) + 1 = k
    BY <1>1, <2>1, <2>2, <2>3, CountedFirst
  <2> QED BY <2>4 DEF LocalUpTo, T, k
<1> QED BY <1>1, <1>2, <1>3 DEF a

\* and so does the query for the first row.
LEMMA FirstIsBisect ==
  ASSUME NEW E, InReceiveOrder(E), NEW x \in Int
  PROVE  LET k == BisectLeft(Times(E), x, 1)
         IN  /\ k \in 1 .. Len(E) + 1
             /\ FirstByLocal(E, x) = IF k <= Len(E) THEN k ELSE NoIndex
<1> DEFINE n == Len(E)
           a == Times(E)
           k == BisectLeft(a, x, 1)
           rows == {j \in DOMAIN E : E[j].ts >= x}
<1>1. /\ n \in Nat /\ DOMAIN E = 1 .. n /\ a \in Seq(Int) /\ Len(a) = n /\ IsOrdered(a, n)
      /\ \A j \in 1 .. n : a[j] = E[j].ts /\ E[j].ts \in Int
  BY OrderedTimes
<1> HIDE DEF n, a
<1>2. k \in 1 .. n + 1 /\ (\A j \in 1 .. k - 1 : a[j] < x) /\ (\A j \in k .. n : a[j] >= x)
  <2>1. 1 \in 1 .. Len(a) + 1 /\ IsOrdered(a, Len(a))
    BY <1>1
  <2> QED BY <1>1, <2>1, BisectLeftFinds
<1> HIDE DEF k
<1>3. \A j \in 1 .. n : j \in rows <=> k <= j
  <2> TAKE j \in 1 .. n
  <2>1. ~(k <= j) => j \in 1 .. k - 1
    BY <1>2
  <2>2. k <= j => j \in k .. n
    BY <1>1, <1>2
  <2> QED BY <1>1, <1>2, <2>1, <2>2
<1>4. rows \subseteq 1 .. n
  BY <1>1
<1> DEFINE first(i) == \A j \in rows : E[i].ts < E[j].ts \/ (E[i].ts = E[j].ts /\ i <= j)
<1>5. FirstByLocal(E, x) = IF rows = {} THEN NoIndex ELSE CHOOSE i \in rows : first(i)
  BY DEF FirstByLocal
<1>6. CASE k <= n
  <2>1. k \in 1 .. n /\ k \in rows
    BY <1>1, <1>2, <1>3, <1>6
  <2>2. \A j \in rows : j \in 1 .. n /\ k <= j /\ E[k].ts \in Int /\ E[j].ts \in Int /\ E[k].ts <= E[j].ts
    <3> TAKE j \in rows
    <3>1. j \in 1 .. n /\ k <= j
      BY <1>3, <1>4
    <3>2. a[k] <= a[j]
      BY <2>1, <3>1, <1>1 DEF IsOrdered
    <3> QED BY <1>1, <2>1, <3>1, <3>2
  <2> HIDE DEF rows
  <2>3. first(k)
    BY <2>2
  <2>4. \A i \in rows : first(i) => i = k
    <3> SUFFICES ASSUME NEW i \in rows, first(i) PROVE i = k
      OBVIOUS
    <3>1. E[i].ts < E[k].ts \/ (E[i].ts = E[k].ts /\ i <= k)
      BY <2>1
    <3>2. k <= i /\ E[k].ts <= E[i].ts /\ i \in 1 .. n /\ E[k].ts \in Int /\ E[i].ts \in Int
      BY <2>2
    <3> QED BY <2>1, <3>1, <3>2
  <2> HIDE DEF first
  <2>5. FirstByLocal(E, x) = k
    BY <1>5, <2>1, <2>3, <2>4
  <2> QED BY <1>2, <1>6, <2>5 DEF k, a, n
<1>7. CASE ~(k <= n)
  <2>1. rows = {}
    <3>1. \A j \in 1 .. n : ~(k <= j)
      BY <1>1, <1>2, <1>7
    <3> QED BY <1>3, <1>4, <3>1
  <2> QED BY <1>2, <1>5, <1>7, <2>1 DEF k, a, n
<1> QED BY <1>6, <1>7

-----------------------------------------------------------------------------
(* The labels of 4.2H by receive time. *)

LabelFields ==
  {"target", "index", "future", "local", "price", "gap", "direction", "first", "featureLag",
   "futureLag", "featureLocal", "eligible", "valid", "reason"}

IsLabel(label) == label = [f \in LabelFields |-> label[f]]

\* What the last checks of a label leave alone, and that they do not look at its eligibility.
LEMMA JudgedKeeps ==
  ASSUME NEW label, IsLabel(label), NEW mid
  PROVE  LET judged == Judged(label, mid)
         IN  /\ IsLabel(judged) /\ judged.index = label.index /\ judged.future = label.future
             /\ judged.target = label.target /\ judged.eligible = label.eligible
             /\ [judged EXCEPT !.eligible = TRUE] = Judged([label EXCEPT !.eligible = TRUE], mid)
<1> DEFINE judged == Judged(label, mid)
           marked == [label EXCEPT !.eligible = TRUE]
           both == Judged(marked, mid)
           last == [judged EXCEPT !.eligible = TRUE]
           late == label.gap > MaxReferenceGap
           bad == label.price <= 0
           way == DirectionLabel(label.price - mid, 0)
<1>1. DOMAIN label = LabelFields
  BY DEF IsLabel
<1>2. /\ IsLabel(marked) /\ marked.eligible = TRUE
      /\ \A f \in LabelFields \ {"eligible"} : marked[f] = label[f]
  BY <1>1 DEF IsLabel, LabelFields
<1> HIDE DEF marked
<1>3. marked.gap = label.gap /\ marked.price = label.price
  <2>1. {"gap", "price"} \subseteq LabelFields \ {"eligible"}
    BY DEF LabelFields
  <2> QED BY <1>2, <2>1
<1>4. ASSUME NEW w, IsLabel(w), w.gap = label.gap, w.price = label.price
      PROVE  /\ IsLabel(Judged(w, mid))
             /\ \A f \in LabelFields \ {"reason", "valid", "direction"} : Judged(w, mid)[f] = w[f]
             /\ Judged(w, mid).reason = IF late THEN "FUTURE_REFERENCE_GAP_TOO_LARGE"
                                        ELSE IF bad THEN "FUTURE_REFERENCE_PRICE_INVALID" ELSE w.reason
             /\ Judged(w, mid).valid = IF late \/ bad THEN w.valid ELSE TRUE
             /\ Judged(w, mid).direction = IF late \/ bad THEN w.direction ELSE way
  <2>1. DOMAIN w = LabelFields
    BY <1>4 DEF IsLabel
  <2>2. CASE late
    <3>1. Judged(w, mid) = [w EXCEPT !.reason = "FUTURE_REFERENCE_GAP_TOO_LARGE"]
      BY <1>4, <2>2 DEF Judged
    <3> HIDE DEF late
    <3> QED BY <2>1, <2>2, <3>1 DEF IsLabel, LabelFields
  <2>3. CASE ~late /\ bad
    <3>1. Judged(w, mid) = [w EXCEPT !.reason = "FUTURE_REFERENCE_PRICE_INVALID"]
      BY <1>4, <2>3 DEF Judged
    <3> HIDE DEF late, bad
    <3> QED BY <2>1, <2>3, <3>1 DEF IsLabel, LabelFields
  <2>4. CASE ~late /\ ~bad
    <3>1. Judged(w, mid) = [w EXCEPT !.valid = TRUE, !.direction = way]
      BY <1>4, <2>4 DEF Judged
    <3> HIDE DEF late, bad, way
    <3> QED BY <2>1, <2>4, <3>1 DEF IsLabel, LabelFields
  <2> QED BY <2>2, <2>3, <2>4
<1> HIDE DEF late, bad, way
<1>5. /\ IsLabel(judged)
      /\ \A f \in LabelFields \ {"reason", "valid", "direction"} : judged[f] = label[f]
      /\ judged.reason = IF late THEN "FUTURE_REFERENCE_GAP_TOO_LARGE"
                         ELSE IF bad THEN "FUTURE_REFERENCE_PRICE_INVALID" ELSE label.reason
      /\ judged.valid = IF late \/ bad THEN label.valid ELSE TRUE
      /\ judged.direction = IF late \/ bad THEN label.direction ELSE way
  BY <1>4
<1>6. /\ IsLabel(both)
      /\ \A f \in LabelFields \ {"reason", "valid", "direction"} : both[f] = marked[f]
      /\ both.reason = IF late THEN "FUTURE_REFERENCE_GAP_TOO_LARGE"
                       ELSE IF bad THEN "FUTURE_REFERENCE_PRICE_INVALID" ELSE marked.reason
      /\ both.valid = IF late \/ bad THEN marked.valid ELSE TRUE
      /\ both.direction = IF late \/ bad THEN marked.direction ELSE way
  BY <1>2, <1>3, <1>4
<1> HIDE DEF judged, both
<1>7. /\ last = [f \in LabelFields |-> last[f]] /\ last.eligible = TRUE
      /\ \A f \in LabelFields \ {"eligible"} : last[f] = judged[f]
  <2>1. DOMAIN judged = LabelFields /\ "eligible" \in LabelFields
    BY <1>5 DEF IsLabel, LabelFields
  <2> QED BY <2>1
<1> HIDE DEF last
<1>8. \A f \in LabelFields : last[f] = both[f]
  <2> TAKE f \in LabelFields
  <2>1. CASE f \in {"reason", "valid", "direction"}
    <3>1. f \in LabelFields \ {"eligible"} /\ last[f] = judged[f] /\ marked[f] = label[f]
      BY <1>2, <1>7, <2>1
    <3>2. judged[f] = both[f]
      <4>1. marked.reason = label.reason /\ marked.valid = label.valid /\ marked.direction = label.direction
        <5>1. {"reason", "valid", "direction"} \subseteq LabelFields \ {"eligible"}
          BY DEF LabelFields
        <5> QED BY <1>2, <5>1
      <4> QED BY <1>5, <1>6, <2>1, <4>1
    <3> QED BY <3>1, <3>2
  <2>2. CASE f = "eligible"
    <3>1. both["eligible"] = marked["eligible"]
      BY <1>6, <2>2
    <3> QED BY <1>2, <1>7, <2>2, <3>1
  <2>3. CASE f \notin {"reason", "valid", "direction", "eligible"}
    <3>1. last[f] = judged[f] /\ judged[f] = label[f]
      BY <1>5, <1>7, <2>3
    <3>2. both[f] = marked[f] /\ marked[f] = label[f]
      BY <1>2, <1>6, <2>3
    <3> QED BY <3>1, <3>2
  <2> QED BY <2>1, <2>2, <2>3
<1>9. last = both
  BY <1>6, <1>7, <1>8 DEF IsLabel
<1>10. {"index", "future", "target", "eligible"} \subseteq LabelFields \ {"reason", "valid", "direction"}
  BY DEF LabelFields
<1> QED BY <1>5, <1>9, <1>10 DEF judged, both, last, marked

\* The label of 4.2C.
LEMMA StreamReferenceSame ==
  ASSUME NEW E, InReceiveOrder(E), NEW sample, sample.ts \in Int
  PROVE  StreamReferenceLabel(sample, E) = BuildReferenceLabel(sample, E)
<1> DEFINE x == sample.ts + LabelMs
           times == Times(E)
           base == [Unmatched(x, NoReason) EXCEPT !.first = BisectRight(times, sample.ts, Len(times) + 1)]
           b == BisectLeft(times, x, 1)
           k == IF b <= Len(E) THEN b ELSE NoIndex
<1>1. x \in Int
  BY ReferenceAssumption
<1>2. /\ Len(times) = Len(E) /\ Len(E) \in Nat
      /\ \A j \in 1 .. Len(E) : times[j] = E[j].ts
  BY OrderedTimes
<1> HIDE DEF x
<1>3. LocalBefore(E, x) = b
  BY <1>1, CountIsBisect
<1>4. LocalUpTo(E, sample.ts) = BisectRight(times, sample.ts, Len(times) + 1)
  BY CountIsBisect
<1>5. b \in 1 .. Len(E) + 1 /\ FirstByLocal(E, x) = k
  BY <1>1, FirstIsBisect
<1> HIDE DEF b, times
<1>6. StreamReferenceLabel(sample, E)
        = IF SampleMid(sample) <= 0 THEN [base EXCEPT !.reason = "CURRENT_MID_INVALID"]
          ELSE IF k = NoIndex THEN [base EXCEPT !.reason = "NO_FUTURE_REFERENCE"]
          ELSE Judged(Matched(base, b, E[k].ts, E[k]), SampleMid(sample))
  <2> HIDE DEF k
  <2> QED BY <1>3, <1>4, <1>5 DEF StreamReferenceLabel, x
<1>7. BuildReferenceLabel(sample, E)
        = IF SampleMid(sample) <= 0 THEN [base EXCEPT !.reason = "CURRENT_MID_INVALID"]
          ELSE IF k = NoIndex THEN [base EXCEPT !.reason = "NO_FUTURE_REFERENCE"]
          ELSE Judged(Matched(base, k, times[k], E[k]), SampleMid(sample))
  <2>1. SelectFutureReference(Times(E), sample.ts) = k
    BY <1>2 DEF SelectFutureReference, b, x, times
  <2> HIDE DEF k
  <2> QED BY <2>1 DEF BuildReferenceLabel, x, times
<1>8. k # NoIndex => k = b /\ times[k] = E[k].ts
  BY <1>2, <1>5
<1> HIDE DEF k, base
<1> QED BY <1>6, <1>7, <1>8

\* A label without a future, or one that is not before its target and counts as eligible.
Sound(label) ==
  \/ label.future = NoValue /\ ~label.valid
  \/ /\ label.future \in Int /\ label.target \in Int /\ label.target <= label.future
     /\ label.eligible

\* The label of 4.2D by receive time.
LEMMA StreamReceiveSame ==
  ASSUME NEW E, InReceiveOrder(E), NEW sample, sample.ts \in Int
  PROVE  /\ StreamReceiveTimeLabel(sample, E) = BuildReceiveTimeLabel(sample, E)
         /\ Sound(BuildReceiveTimeLabel(sample, E))
<1> DEFINE x == sample.ts + LabelMs
           times == Times(E)
           mid == SampleMid(sample)
           base == [Unmatched(x, NoReason) EXCEPT !.first = BisectRight(times, sample.ts, Len(times) + 1)]
           k == BisectLeft(times, x, 1)
           found == Matched(base, k, times[k], E[k])
<1>1. x \in Int
  BY ReferenceAssumption
<1>2. /\ Len(times) = Len(E) /\ Len(E) \in Nat /\ times \in Seq(Int) /\ IsOrdered(times, Len(E))
      /\ \A j \in 1 .. Len(E) : times[j] = E[j].ts
  BY OrderedTimes
<1> HIDE DEF x
<1>3. /\ k \in 1 .. Len(E) + 1
      /\ (times = << >> \/ x > Last(times)) <=> ~(k <= Len(E))
      /\ k <= Len(E) => times[k] \in Int /\ times[k] >= x
  <2> HIDE DEF times
  <2>1. IsOrdered(times, Len(times))
    BY <1>2
  <2>2. k \in 1 .. Len(times) + 1 /\ ((times = << >> \/ x > Last(times)) <=> ~(k <= Len(times)))
    BY <1>1, <1>2, <2>1, PastTheLast
  <2>3. \A j \in k .. Len(times) : times[j] >= x
    <3>1. 1 \in 1 .. Len(times) + 1
      BY <1>2
    <3> QED BY <1>1, <1>2, <2>1, <3>1, BisectLeftFinds
  <2> HIDE DEF k
  <2>4. k <= Len(E) => k \in k .. Len(times) /\ k \in 1 .. Len(E)
    BY <1>2, <2>2
  <2> QED BY <1>2, <2>2, <2>3, <2>4
<1>4. BuildReceiveTimeLabel(sample, E)
        = IF mid <= 0 THEN [base EXCEPT !.reason = "CURRENT_MID_INVALID"]
          ELSE IF ~(k <= Len(E)) THEN [base EXCEPT !.reason = "NO_FUTURE_REFERENCE"]
          ELSE Judged([found EXCEPT !.eligible = TRUE], mid)
  <2>1. base.target = x
    BY DEF Unmatched
  <2> DEFINE j == BisectLeft(times, base.target, 1)
  <2>2. BuildReceiveTimeLabel(sample, E)
          = IF mid <= 0 THEN [base EXCEPT !.reason = "CURRENT_MID_INVALID"]
            ELSE IF times = << >> \/ base.target > Last(times)
              THEN [base EXCEPT !.reason = "NO_FUTURE_REFERENCE"]
            ELSE Judged([Matched(base, j, times[j], E[j]) EXCEPT !.eligible = TRUE], mid)
    BY DEF BuildReceiveTimeLabel, x
  <2> HIDE DEF base, times, mid
  <2>3. j = k
    BY <2>1
  <2>4. (times = << >> \/ base.target > Last(times)) <=> ~(k <= Len(E))
    BY <1>3, <2>1
  <2> HIDE DEF j, k
  <2> QED BY <2>2, <2>3, <2>4
<1>5. BuildReferenceLabel(sample, E)
        = IF mid <= 0 THEN [base EXCEPT !.reason = "CURRENT_MID_INVALID"]
          ELSE IF ~(k <= Len(E)) THEN [base EXCEPT !.reason = "NO_FUTURE_REFERENCE"]
          ELSE Judged(found, mid)
  <2> DEFINE m == IF k <= Len(E) THEN k ELSE NoIndex
  <2>1. SelectFutureReference(times, sample.ts) = m
    BY <1>2 DEF SelectFutureReference, x
  <2> HIDE DEF m
  <2>2. BuildReferenceLabel(sample, E)
          = IF mid <= 0 THEN [base EXCEPT !.reason = "CURRENT_MID_INVALID"]
            ELSE IF m = NoIndex THEN [base EXCEPT !.reason = "NO_FUTURE_REFERENCE"]
            ELSE Judged(Matched(base, m, times[m], E[m]), mid)
    BY <2>1 DEF BuildReferenceLabel, x
  <2>3. (m = NoIndex <=> ~(k <= Len(E))) /\ (m # NoIndex => m = k)
    BY <1>3 DEF m, NoIndex
  <2> HIDE DEF k, base, times
  <2> QED BY <2>2, <2>3
<1>6. /\ IsLabel(base) /\ base.index = NoIndex /\ base.eligible = FALSE /\ base.future = NoValue
      /\ base.valid = FALSE /\ base.target = x
  BY DEF IsLabel, LabelFields, Unmatched
<1> HIDE DEF base, times, k
<1>7. /\ IsLabel(found) /\ found.index = k /\ found.future = times[k] /\ found.target = x
  <2>1. DOMAIN base = LabelFields
    BY <1>6 DEF IsLabel
  <2> QED BY <1>6, <2>1 DEF Matched, IsLabel, LabelFields
<1> HIDE DEF found
<1>8. \A r : /\ [[base EXCEPT !.reason = r] EXCEPT !.eligible = FALSE] = [base EXCEPT !.reason = r]
             /\ [base EXCEPT !.reason = r].index = NoIndex
             /\ Sound([base EXCEPT !.reason = r])
  <2> TAKE r
  <2> DEFINE w == [base EXCEPT !.reason = r]
  <2>1. DOMAIN base = LabelFields
    BY <1>6 DEF IsLabel
  <2>2. /\ IsLabel(w) /\ w.index = NoIndex /\ w.eligible = FALSE /\ w.future = NoValue /\ w.valid = FALSE
    BY <1>6, <2>1 DEF IsLabel, LabelFields
  <2> HIDE DEF w
  <2> DEFINE v == [w EXCEPT !.eligible = FALSE]
  <2>3. v = [f \in LabelFields |-> v[f]] /\ \A f \in LabelFields : v[f] = w[f]
    <3>1. DOMAIN w = LabelFields
      BY <2>2 DEF IsLabel
    <3> QED BY <2>2, <3>1
  <2> HIDE DEF v
  <2>4. v = w
    BY <2>2, <2>3 DEF IsLabel
  <2>5. Sound(w)
    BY <2>2 DEF Sound
  <2> QED BY <2>2, <2>4, <2>5 DEF v, w
<1> DEFINE label == StreamReferenceLabel(sample, E)
<1>9. label = BuildReferenceLabel(sample, E)
  BY StreamReferenceSame
<1>10. StreamReceiveTimeLabel(sample, E) = [label EXCEPT !.eligible = label.index # NoIndex]
  BY DEF StreamReceiveTimeLabel
<1> HIDE DEF label, mid
<1>11. CASE mid <= 0 \/ ~(k <= Len(E))
  <2> DEFINE r == IF mid <= 0 THEN "CURRENT_MID_INVALID" ELSE "NO_FUTURE_REFERENCE"
  <2>1. label = [base EXCEPT !.reason = r] /\ BuildReceiveTimeLabel(sample, E) = [base EXCEPT !.reason = r]
    BY <1>4, <1>5, <1>9, <1>11
  <2> HIDE DEF r
  <2>2. label.index = NoIndex /\ [label EXCEPT !.eligible = FALSE] = label /\ Sound(label)
    BY <1>8, <2>1
  <2>3. (label.index # NoIndex) = FALSE
    BY <2>2
  <2> QED BY <1>10, <2>1, <2>2, <2>3
<1>12. CASE ~(mid <= 0) /\ k <= Len(E)
  <2> DEFINE marked == [found EXCEPT !.eligible = TRUE]
  <2>1. label = Judged(found, mid) /\ BuildReceiveTimeLabel(sample, E) = Judged(marked, mid)
    BY <1>4, <1>5, <1>9, <1>12
  <2>2. Judged(found, mid).index = k /\ [Judged(found, mid) EXCEPT !.eligible = TRUE] = Judged(marked, mid)
    BY <1>7, JudgedKeeps
  <2>3. (label.index # NoIndex) = TRUE
    BY <1>3, <2>1, <2>2 DEF NoIndex
  <2>4. StreamReceiveTimeLabel(sample, E) = Judged(marked, mid)
    BY <1>10, <2>1, <2>2, <2>3
  <2>5. /\ IsLabel(marked) /\ marked.eligible = TRUE /\ marked.future = times[k] /\ marked.target = x
    <3>1. DOMAIN found = LabelFields
      BY <1>7 DEF IsLabel
    <3> QED BY <1>7, <3>1 DEF IsLabel, LabelFields
  <2> HIDE DEF marked
  <2>6. /\ Judged(marked, mid).eligible = TRUE /\ Judged(marked, mid).future = times[k]
        /\ Judged(marked, mid).target = x
    BY <2>5, JudgedKeeps
  <2>7. Sound(Judged(marked, mid))
    BY <1>1, <1>3, <1>12, <2>6 DEF Sound
  <2> QED BY <2>1, <2>4, <2>7
<1> QED BY <1>11, <1>12

-----------------------------------------------------------------------------
(* The labels of 4.2H by exchange time: a stable sort of the rows that have one. *)

\* The list t holds the elements of s at the first n positions in `at`: q says which, in their order.
PicksAt(t, q, s, at, n) ==
  /\ q \in Seq(Nat) /\ t \in Seq(Range(s)) /\ Len(t) = Len(q)
  /\ \A m \in 1 .. Len(q) : q[m] \in at /\ q[m] \in 1 .. n /\ t[m] = s[q[m]]
  /\ \A l, m \in 1 .. Len(q) : l < m => q[l] < q[m]
  /\ \A j \in 1 .. n : j \in at => \E m \in 1 .. Len(q) : q[m] = j

\* One more position.
LEMMA PicksOneMore ==
  ASSUME NEW s, NEW at, NEW n \in Nat \ {0}, NEW t, NEW q, PicksAt(t, q, s, at, n - 1), s[n] \in Range(s)
  PROVE  /\ n \notin at => PicksAt(t, q, s, at, n)
         /\ n \in at => PicksAt(Append(t, s[n]), Append(q, n), s, at, n)
<1>1. /\ q \in Seq(Nat) /\ t \in Seq(Range(s)) /\ Len(t) = Len(q) /\ Len(q) \in Nat
      /\ \A m \in 1 .. Len(q) : q[m] \in at /\ q[m] \in 1 .. n - 1 /\ t[m] = s[q[m]]
      /\ \A l, m \in 1 .. Len(q) : l < m => q[l] < q[m]
      /\ \A j \in 1 .. n - 1 : j \in at => \E m \in 1 .. Len(q) : q[m] = j
  BY DEF PicksAt
<1>2. n - 1 \in Nat /\ \A j \in 1 .. n : j \in 1 .. n - 1 \/ j = n
  OBVIOUS
<1>3. \A m \in 1 .. Len(q) : q[m] \in 1 .. n /\ q[m] < n
  BY <1>1, <1>2
<1>4. ASSUME n \notin at PROVE PicksAt(t, q, s, at, n)
  <2>1. \A j \in 1 .. n : j \in at => \E m \in 1 .. Len(q) : q[m] = j
    BY <1>1, <1>2, <1>4
  <2> QED BY <1>1, <1>3, <2>1 DEF PicksAt
<1>5. ASSUME n \in at PROVE PicksAt(Append(t, s[n]), Append(q, n), s, at, n)
  <2> DEFINE p == Append(q, n)
             u == Append(t, s[n])
  <2>1. /\ p \in Seq(Nat) /\ Len(p) = Len(q) + 1 /\ p[Len(q) + 1] = n
        /\ \A m \in 1 .. Len(q) : p[m] = q[m]
    BY <1>1
  <2>2. /\ u \in Seq(Range(s)) /\ Len(u) = Len(q) + 1 /\ u[Len(q) + 1] = s[n]
        /\ \A m \in 1 .. Len(q) : u[m] = t[m]
    BY <1>1
  <2> HIDE DEF p, u
  <2>3. \A m \in 1 .. Len(p) : m \in 1 .. Len(q) \/ m = Len(q) + 1
    BY <1>1, <2>1
  <2>4. \A m \in 1 .. Len(p) : p[m] \in at /\ p[m] \in 1 .. n /\ u[m] = s[p[m]]
    <3> TAKE m \in 1 .. Len(p)
    <3>1. CASE m \in 1 .. Len(q)
      BY <1>1, <1>3, <2>1, <2>2, <3>1
    <3>2. CASE m = Len(q) + 1
      BY <1>5, <2>1, <2>2, <3>2
    <3> QED BY <2>3, <3>1, <3>2
  <2>5. \A l, m \in 1 .. Len(p) : l < m => p[l] < p[m]
    <3> SUFFICES ASSUME NEW l \in 1 .. Len(p), NEW m \in 1 .. Len(p), l < m PROVE p[l] < p[m]
      OBVIOUS
    <3>1. l \in 1 .. Len(q) /\ p[l] = q[l]
      BY <1>1, <2>1
    <3>2. CASE m \in 1 .. Len(q)
      BY <1>1, <2>1, <3>1, <3>2
    <3>3. CASE m = Len(q) + 1
      BY <1>3, <2>1, <3>1, <3>3
    <3> QED BY <2>3, <3>2, <3>3
  <2>6. \A j \in 1 .. n : j \in at => \E m \in 1 .. Len(p) : p[m] = j
    <3> SUFFICES ASSUME NEW j \in 1 .. n, j \in at PROVE \E m \in 1 .. Len(p) : p[m] = j
      OBVIOUS
    <3>1. CASE j \in 1 .. n - 1
      <4>1. PICK m \in 1 .. Len(q) : q[m] = j
        BY <1>1, <3>1
      <4>2. m \in 1 .. Len(p) /\ p[m] = j
        BY <1>1, <2>1, <4>1
      <4> QED BY <4>2
    <3>2. CASE j = n
      <4>1. Len(q) + 1 \in 1 .. Len(p)
        BY <1>1, <2>1
      <4> QED BY <2>1, <3>2, <4>1
    <3> QED BY <1>2, <3>1, <3>2
  <2>7. PicksAt(u, p, s, at, n)
    BY <2>1, <2>2, <2>4, <2>5, <2>6 DEF PicksAt
  <2> QED BY <2>7 DEF p, u
<1> QED BY <1>4, <1>5

\* Where what is picked comes from.
LEMMA PickedPositions ==
  ASSUME NEW S, NEW s \in Seq(S), NEW at
  PROVE  \E q : PicksAt(Picked(s, at), q, s, at, Len(s))
<1>1. Len(s) \in Nat /\ DOMAIN s = 1 .. Len(s) /\ \A k \in 1 .. Len(s) : s[k] \in Range(s)
  BY DEF Range
<1>2. PICK f : f = [k \in 0 .. Len(s) |-> Take(s, at, f, k)] /\ Picked(s, at) = f[Len(s)]
  BY <1>1, PickedIsTaken
<1> DEFINE good(n) == \E q : PicksAt(f[n], q, s, at, n)
           bad == {n \in Nat : n <= Len(s) /\ ~good(n)}
<1>3. bad = {}
  <2> SUFFICES ASSUME bad # {} PROVE FALSE
    OBVIOUS
  <2>1. PICK n \in bad : \A j \in bad : n <= j
    <3>1. bad \in SUBSET Nat
      OBVIOUS
    <3> HIDE DEF bad
    <3> QED BY <3>1, LeastOf
  <2>2. n \in 0 .. Len(s) /\ ~good(n) /\ f[n] = Take(s, at, f, n)
    <3>1. n \in 0 .. Len(s) /\ ~good(n)
      BY <2>1
    <3> HIDE DEF good
    <3> QED BY <1>2, <3>1
  <2>3. n # 0
    <3>1. n = 0 => f[n] = << >>
      BY <2>2 DEF Take
    <3>2. PicksAt(<< >>, << >>, s, at, 0)
      <4> DEFINE e == << >>
      <4>1. e \in Seq(Nat) /\ e \in Seq(Range(s)) /\ Len(e) = 0 /\ 1 .. 0 = {}
        OBVIOUS
      <4> QED BY <4>1 DEF PicksAt
    <3> QED BY <2>2, <3>1, <3>2
  <2>4. n - 1 \in Nat /\ n - 1 <= Len(s) /\ n - 1 \notin bad
    <3>1. n - 1 \in Nat /\ n - 1 < n
      BY <2>2, <2>3
    <3> HIDE DEF bad, good
    <3> QED BY <2>1, <2>2, <3>1
  <2>5. good(n - 1)
    <3> HIDE DEF good
    <3> QED BY <2>4
  <2>6. PICK q : PicksAt(f[n - 1], q, s, at, n - 1)
    BY <2>5
  <2>7. n \in Nat \ {0} /\ s[n] \in Range(s)
    BY <1>1, <2>2, <2>3
  <2>8. /\ n \notin at => PicksAt(f[n - 1], q, s, at, n)
        /\ n \in at => PicksAt(Append(f[n - 1], s[n]), Append(q, n), s, at, n)
    BY <2>6, <2>7, PicksOneMore
  <2>9. f[n] = IF n \in at THEN Append(f[n - 1], s[n]) ELSE f[n - 1]
    BY <2>2, <2>3 DEF Take
  <2> QED BY <2>2, <2>8, <2>9
<1>4. good(Len(s))
  <2>1. Len(s) \notin bad
    BY <1>3
  <2> HIDE DEF good
  <2> QED BY <1>1, <2>1
<1> QED BY <1>2, <1>4

\* Equal keys keep their order.
LEMMA RankIsStable ==
  ASSUME NEW n \in Nat, NEW keys, \A j \in 1 .. n : keys[j] \in Int
  PROVE  LET p == ByRank(keys, n)
         IN  \A l, m \in 1 .. n : l < m => \/ keys[p[l]] < keys[p[m]]
                                           \/ keys[p[l]] = keys[p[m]] /\ p[l] < p[m]
<1> DEFINE p == ByRank(keys, n)
<1>1. \A m \in 1 .. n : p[m] \in 1 .. n /\ Cardinality(Ahead(keys, n, p[m])) = m - 1
  BY RankIsTaken
<1> HIDE DEF p
<1>2. ASSUME NEW l \in 1 .. n, NEW m \in 1 .. n, l < m
      PROVE  \/ keys[p[l]] < keys[p[m]]
             \/ keys[p[l]] = keys[p[m]] /\ p[l] < p[m]
  <2>1. p[l] \in 1 .. n /\ p[m] \in 1 .. n /\ p[l] # p[m]
    BY <1>1, <1>2
  <2>2. ~(p[m] \in Ahead(keys, n, p[l]))
    <3> SUFFICES ASSUME p[m] \in Ahead(keys, n, p[l]) PROVE FALSE
      OBVIOUS
    <3>1. m - 1 < l - 1
      BY <1>1, <2>1, AheadGrows
    <3> QED BY <1>2, <3>1
  <2>3. p[l] \in Ahead(keys, n, p[m])
    BY <2>1, <2>2, AheadIsTotal
  <2> QED BY <2>3 DEF Ahead
<1> QED BY <1>2 DEF p

\* The list R holds the dated rows of E, in the order of their exchange times and
\* then of their positions, which r says.
DatedOrder(E, R, r, n) ==
  /\ n \in Nat /\ DOMAIN R = 1 .. n
  /\ \A m \in 1 .. n : /\ r[m] \in 1 .. Len(E) /\ R[m] = E[r[m]]
                       /\ HasExchangeTime(E[r[m]]) /\ ExchangeTime(R[m]) \in Int
  /\ \A j \in 1 .. Len(E) : HasExchangeTime(E[j]) => \E m \in 1 .. n : r[m] = j
  /\ \A l, m \in 1 .. n : l < m => \/ ExchangeTime(R[l]) < ExchangeTime(R[m])
                                   \/ ExchangeTime(R[l]) = ExchangeTime(R[m]) /\ r[l] < r[m]

\* Sorting the dated rows of a list by exchange time.
LEMMA DatedInOrder ==
  ASSUME NEW E \in Seq(SeenRow)
  PROVE  LET dated == Those(E, HasExchangeTime)
             R == SortedBy(dated, ExchangeTimes(dated))
         IN  \E r, n : DatedOrder(E, R, r, n)
<1> DEFINE at == {k \in DOMAIN E : HasExchangeTime(E[k])}
           dated == Picked(E, at)
           keys == ExchangeTimes(dated)
           R == SortedBy(dated, keys)
           n == Len(dated)
           p == ByRank(keys, n)
<1>1. Those(E, HasExchangeTime) = dated
  BY DEF Those
<1>2. /\ Len(E) \in Nat /\ DOMAIN E = 1 .. Len(E)
      /\ \A k \in 1 .. Len(E) : HasExchangeTime(E[k]) => ExchangeTime(E[k]) \in Int
  <2>1. \A k \in 1 .. Len(E) : E[k] \in SeenRow
    OBVIOUS
  <2> QED BY <2>1, SeenTimes
<1>3. \A k \in 1 .. Len(E) : k \in at <=> HasExchangeTime(E[k])
  BY <1>2
<1> HIDE DEF at
<1>4. PICK q : PicksAt(dated, q, E, at, Len(E))
  BY PickedPositions
<1> HIDE DEF dated
<1>5. /\ n \in Nat /\ DOMAIN dated = 1 .. n
      /\ \A m \in 1 .. n : q[m] \in at /\ q[m] \in 1 .. Len(E) /\ dated[m] = E[q[m]]
      /\ \A l, m \in 1 .. n : l < m => q[l] < q[m]
      /\ \A j \in 1 .. Len(E) : j \in at => \E m \in 1 .. n : q[m] = j
  BY <1>4 DEF PicksAt
<1>6. \A m \in 1 .. n : keys[m] = ExchangeTime(dated[m]) /\ keys[m] \in Int
  BY <1>2, <1>3, <1>5 DEF ExchangeTimes
<1> HIDE DEF keys, n
<1>7. InOrder(keys, n, p)
  BY <1>5, <1>6, RankIsInOrder
<1>8. \A l, m \in 1 .. n : l < m => \/ keys[p[l]] < keys[p[m]]
                                    \/ keys[p[l]] = keys[p[m]] /\ p[l] < p[m]
  BY <1>5, <1>6, RankIsStable
<1>9. R = [m \in 1 .. n |-> dated[p[m]]]
  BY <1>5, SortedByRank
<1> HIDE DEF p, R
<1>10. \A m \in 1 .. n : p[m] \in 1 .. n /\ R[m] = dated[p[m]]
  BY <1>7, <1>9 DEF InOrder
<1>11. \A j \in 1 .. n : \E m \in 1 .. n : p[m] = j
  BY <1>7 DEF InOrder
<1> DEFINE r == [m \in 1 .. n |-> q[p[m]]]
<1>12. \A m \in 1 .. n : r[m] = q[p[m]]
  OBVIOUS
<1> HIDE DEF r
<1>13. \A m \in 1 .. n : /\ r[m] \in 1 .. Len(E) /\ R[m] = E[r[m]] /\ HasExchangeTime(E[r[m]])
                         /\ ExchangeTime(R[m]) \in Int /\ ExchangeTime(R[m]) = keys[p[m]]
  <2> TAKE m \in 1 .. n
  <2>1. p[m] \in 1 .. n /\ R[m] = dated[p[m]] /\ r[m] = q[p[m]]
    BY <1>10, <1>12
  <2>2. q[p[m]] \in at /\ q[p[m]] \in 1 .. Len(E) /\ dated[p[m]] = E[q[p[m]]]
    BY <1>5, <2>1
  <2>3. keys[p[m]] = ExchangeTime(dated[p[m]]) /\ keys[p[m]] \in Int
    BY <1>6, <2>1
  <2> QED BY <1>3, <2>1, <2>2, <2>3
<1>14. \A j \in 1 .. Len(E) : HasExchangeTime(E[j]) => \E m \in 1 .. n : r[m] = j
  <2> SUFFICES ASSUME NEW j \in 1 .. Len(E), HasExchangeTime(E[j]) PROVE \E m \in 1 .. n : r[m] = j
    OBVIOUS
  <2>1. PICK l \in 1 .. n : q[l] = j
    BY <1>3, <1>5
  <2>2. PICK m \in 1 .. n : p[m] = l
    BY <1>11
  <2> QED BY <1>12, <2>1, <2>2
<1>15. ASSUME NEW l \in 1 .. n, NEW m \in 1 .. n, l < m
       PROVE  \/ ExchangeTime(R[l]) < ExchangeTime(R[m])
              \/ ExchangeTime(R[l]) = ExchangeTime(R[m]) /\ r[l] < r[m]
  <2>1. keys[p[l]] < keys[p[m]] \/ (keys[p[l]] = keys[p[m]] /\ p[l] < p[m])
    BY <1>8, <1>15
  <2>2. p[l] < p[m] => q[p[l]] < q[p[m]]
    BY <1>5, <1>10
  <2> QED BY <1>12, <1>13, <2>1, <2>2
<1>16. DOMAIN R = 1 .. n
  BY <1>9
<1>17. DatedOrder(E, R, r, n)
  BY <1>5, <1>13, <1>14, <1>15, <1>16 DEF DatedOrder
<1> QED BY <1>1, <1>17 DEF R, keys

\* Counting the rows before an exchange time finds the position the bisection finds, and
\* the query for the first row finds the row at that position.
LEMMA ExchangeQueries ==
  ASSUME NEW E, InReceiveOrder(E), NEW R, NEW r, NEW n, DatedOrder(E, R, r, n), NEW x \in Int
  PROVE  LET times == ExchangeTimes(R)
             k == BisectLeft(times, x, 1)
         IN  /\ times \in Seq(Int) /\ Len(times) = n /\ IsOrdered(times, n)
             /\ k \in 1 .. n + 1 /\ ExchangeBefore(E, x) = k
             /\ FirstByExchange(E, x) = IF k <= n THEN r[k] ELSE NoIndex
<1> DEFINE times == ExchangeTimes(R)
           k == BisectLeft(times, x, 1)
<1>1. /\ n \in Nat /\ DOMAIN R = 1 .. n
      /\ \A m \in 1 .. n : /\ r[m] \in 1 .. Len(E) /\ R[m] = E[r[m]]
                           /\ HasExchangeTime(E[r[m]]) /\ ExchangeTime(R[m]) \in Int
      /\ \A j \in 1 .. Len(E) : HasExchangeTime(E[j]) => \E m \in 1 .. n : r[m] = j
      /\ \A l, m \in 1 .. n : l < m => \/ ExchangeTime(R[l]) < ExchangeTime(R[m])
                                       \/ ExchangeTime(R[l]) = ExchangeTime(R[m]) /\ r[l] < r[m]
  BY DEF DatedOrder
<1>2. /\ Len(E) \in Nat /\ DOMAIN E = 1 .. Len(E)
      /\ \A j \in 1 .. Len(E) : E[j].ts \in Int
      /\ \A i, j \in 1 .. Len(E) : i <= j => E[i].ts <= E[j].ts
  <2>1. /\ Len(E) \in Nat /\ DOMAIN E = 1 .. Len(E) /\ IsOrdered(Times(E), Len(E))
        /\ \A j \in 1 .. Len(E) : Times(E)[j] = E[j].ts /\ E[j].ts \in Int
    BY OrderedTimes
  <2> QED BY <2>1 DEF IsOrdered
<1>3. /\ times \in Seq(Int) /\ Len(times) = n
      /\ \A m \in 1 .. n : times[m] = ExchangeTime(R[m]) /\ times[m] \in Int
  <2>1. times = [m \in 1 .. n |-> ExchangeTime(R[m])]
    BY <1>1 DEF ExchangeTimes
  <2> HIDE DEF times
  <2> QED BY <1>1, <2>1
<1> HIDE DEF times
<1>4. IsOrdered(times, n)
  <2> SUFFICES ASSUME NEW l \in 1 .. n, NEW m \in 1 .. n, l <= m PROVE times[l] <= times[m]
    BY DEF IsOrdered
  <2>1. CASE l = m
    BY <1>3, <2>1
  <2>2. CASE l < m
    BY <1>1, <1>3, <2>2
  <2> QED BY <2>1, <2>2
<1>5. k \in 1 .. n + 1 /\ (\A j \in 1 .. k - 1 : times[j] < x) /\ (\A j \in k .. n : times[j] >= x)
  <2>1. 1 \in 1 .. Len(times) + 1 /\ IsOrdered(times, Len(times))
    BY <1>1, <1>3, <1>4
  <2> QED BY <1>3, <2>1, BisectLeftFinds
<1> HIDE DEF k
<1>6. \A l, m \in 1 .. n : r[l] = r[m] => l = m
  <2> SUFFICES ASSUME NEW l \in 1 .. n, NEW m \in 1 .. n, r[l] = r[m], l < m PROVE FALSE
    <3>1. \A l, m \in 1 .. n : l = m \/ l < m \/ m < l
      BY <1>1
    <3> QED BY <3>1
  <2>1. r[l] \in Int /\ r[m] \in Int /\ ExchangeTime(R[l]) = ExchangeTime(R[m]) /\ ExchangeTime(R[m]) \in Int
    BY <1>1
  <2> QED BY <1>1, <2>1
<1>7. \A m \in 1 .. n : (times[m] < x <=> m < k) /\ (times[m] >= x <=> k <= m)
  <2> TAKE m \in 1 .. n
  <2>1. m < k => m \in 1 .. k - 1
    BY <1>5
  <2>2. k <= m => m \in k .. n
    BY <1>1, <1>5
  <2> QED BY <1>3, <1>5, <2>1, <2>2
<1>8. ExchangeBefore(E, x) = k
  <2> DEFINE rows == {j \in DOMAIN E : HasExchangeTime(E[j]) /\ ExchangeTime(E[j]) < x}
             g == [m \in 1 .. k - 1 |-> r[m]]
  <2>1. \A m \in 1 .. k - 1 : m \in 1 .. n /\ g[m] = r[m]
    BY <1>1, <1>5
  <2>2. \A m \in 1 .. k - 1 : g[m] \in rows
    <3> TAKE m \in 1 .. k - 1
    <3>1. m \in 1 .. n /\ g[m] = r[m] /\ times[m] < x
      BY <1>5, <2>1
    <3> QED BY <1>1, <1>2, <1>3, <3>1
  <2>3. \A j \in rows : \E m \in 1 .. k - 1 : g[m] = j
    <3> TAKE j \in rows
    <3>1. j \in 1 .. Len(E) /\ HasExchangeTime(E[j]) /\ ExchangeTime(E[j]) < x
      BY <1>2
    <3>2. PICK m \in 1 .. n : r[m] = j
      BY <1>1, <3>1
    <3>3. times[m] < x
      BY <1>1, <1>3, <3>1, <3>2
    <3>4. m \in 1 .. k - 1
      BY <1>5, <1>7, <3>3
    <3> QED BY <2>1, <3>2, <3>4
  <2>4. \A l, m \in 1 .. k - 1 : g[l] = g[m] => l = m
    BY <1>6, <2>1
  <2>5. g = [m \in 1 .. k - 1 |-> g[m]]
    OBVIOUS
  <2> HIDE DEF g, rows
  <2>6. g \in [1 .. k - 1 -> rows]
    BY <2>2, <2>5
  <2>7. g \in Bijection(1 .. k - 1, rows)
    BY <2>3, <2>4, <2>6 DEF Bijection, Injection, Surjection, IsInjective
  <2>8. IsFiniteSet(1 .. k - 1) /\ Cardinality(1 .. k - 1) = k - 1
    BY <1>5, FS_Interval
  <2>9. Cardinality(rows) = k - 1
    <3>1. ExistsBijection(1 .. k - 1, rows)
      BY <2>7 DEF ExistsBijection
    <3> QED BY <2>8, <3>1, FS_Bijection
  <2>10. ExchangeBefore(E, x) = Cardinality(rows) + 1
    BY DEF ExchangeBefore, rows
  <2> QED BY <1>5, <2>9, <2>10
<1>9. FirstByExchange(E, x) = IF k <= n THEN r[k] ELSE NoIndex
  <2> DEFINE rows == {j \in DOMAIN E : HasExchangeTime(E[j]) /\ ExchangeTime(E[j]) >= x}
             first(i) == \A j \in rows :
               \/ ExchangeTime(E[i]) < ExchangeTime(E[j])
               \/ ExchangeTime(E[i]) = ExchangeTime(E[j]) /\ E[i].ts < E[j].ts
               \/ ExchangeTime(E[i]) = ExchangeTime(E[j]) /\ E[i].ts = E[j].ts /\ i <= j
  <2>1. FirstByExchange(E, x) = IF rows = {} THEN NoIndex ELSE CHOOSE i \in rows : first(i)
    BY DEF FirstByExchange
  <2>2. \A j \in rows : \E m \in k .. n : m \in 1 .. n /\ r[m] = j
    <3> TAKE j \in rows
    <3>1. j \in 1 .. Len(E) /\ HasExchangeTime(E[j]) /\ ExchangeTime(E[j]) >= x
      BY <1>2
    <3>2. PICK m \in 1 .. n : r[m] = j
      BY <1>1, <3>1
    <3>3. times[m] >= x
      BY <1>1, <1>3, <3>1, <3>2
    <3>4. m \in k .. n
      BY <1>1, <1>5, <1>7, <3>3
    <3> QED BY <3>2, <3>4
  <2>3. \A m \in k .. n : m \in 1 .. n /\ r[m] \in rows
    <3> TAKE m \in k .. n
    <3>1. m \in 1 .. n /\ times[m] >= x
      BY <1>1, <1>5
    <3> QED BY <1>1, <1>2, <1>3, <3>1
  <2> HIDE DEF rows
  <2>4. CASE k <= n
    <3>1. k \in k .. n /\ k \in 1 .. n /\ r[k] \in rows
      BY <1>1, <1>5, <2>3, <2>4
    <3>2. ASSUME NEW m \in k .. n
          PROVE  /\ m \in 1 .. n /\ r[k] \in 1 .. Len(E) /\ r[m] \in 1 .. Len(E)
                 /\ ExchangeTime(E[r[k]]) \in Int /\ ExchangeTime(E[r[m]]) \in Int
                 /\ E[r[k]].ts \in Int /\ E[r[m]].ts \in Int
                 /\ \/ ExchangeTime(E[r[k]]) < ExchangeTime(E[r[m]])
                    \/ /\ ExchangeTime(E[r[k]]) = ExchangeTime(E[r[m]])
                       /\ r[k] <= r[m] /\ E[r[k]].ts <= E[r[m]].ts
      <4>1. m \in 1 .. n /\ r[k] \in 1 .. Len(E) /\ r[m] \in 1 .. Len(E)
            /\ R[k] = E[r[k]] /\ R[m] = E[r[m]]
            /\ ExchangeTime(R[k]) \in Int /\ ExchangeTime(R[m]) \in Int
        BY <1>1, <2>3, <3>1
      <4>2. k = m \/ k < m
        BY <1>5
      <4>3. ExchangeTime(R[k]) < ExchangeTime(R[m]) \/ (ExchangeTime(R[k]) = ExchangeTime(R[m]) /\ r[k] <= r[m])
        <5>1. CASE k = m
          BY <4>1, <5>1
        <5>2. CASE k < m
          <6>1. r[k] < r[m] => r[k] <= r[m]
            BY <4>1
          <6> QED BY <1>1, <3>1, <4>1, <5>2, <6>1
        <5> QED BY <4>2, <5>1, <5>2
      <4>4. r[k] <= r[m] => E[r[k]].ts <= E[r[m]].ts
        BY <1>2, <4>1
      <4>5. E[r[k]].ts \in Int /\ E[r[m]].ts \in Int
        BY <1>2, <4>1
      <4> QED BY <4>1, <4>3, <4>4, <4>5
    <3>3. first(r[k])
      <4> SUFFICES ASSUME NEW j \in rows
                   PROVE  \/ ExchangeTime(E[r[k]]) < ExchangeTime(E[j])
                          \/ ExchangeTime(E[r[k]]) = ExchangeTime(E[j]) /\ E[r[k]].ts < E[j].ts
                          \/ ExchangeTime(E[r[k]]) = ExchangeTime(E[j]) /\ E[r[k]].ts = E[j].ts /\ r[k] <= j
        OBVIOUS
      <4>1. PICK m \in k .. n : r[m] = j
        BY <2>2
      <4> QED BY <3>2, <4>1
    <3>4. ASSUME NEW i \in rows, first(i) PROVE i = r[k]
      <4>1. PICK m \in k .. n : r[m] = i
        BY <2>2
      <4>2. \/ ExchangeTime(E[i]) < ExchangeTime(E[r[k]])
            \/ ExchangeTime(E[i]) = ExchangeTime(E[r[k]]) /\ E[i].ts < E[r[k]].ts
            \/ ExchangeTime(E[i]) = ExchangeTime(E[r[k]]) /\ E[i].ts = E[r[k]].ts /\ i <= r[k]
        BY <3>1, <3>4
      <4> QED BY <3>2, <4>1, <4>2
    <3> HIDE DEF first
    <3> QED BY <2>1, <2>4, <3>1, <3>3, <3>4
  <2>5. CASE ~(k <= n)
    <3>1. rows = {}
      <4>1. k .. n = {}
        BY <1>1, <1>5, <2>5
      <4> QED BY <2>2, <4>1
    <3> QED BY <2>1, <2>5, <3>1
  <2> QED BY <2>4, <2>5
<1> QED BY <1>3, <1>4, <1>5, <1>8, <1>9 DEF times, k

\* The label of 4.2D by exchange time.
LEMMA StreamExchangeSame ==
  ASSUME NEW E, InReceiveOrder(E), NEW sample, sample.exchange \in Int \cup {NoValue}, NEW schema
  PROVE  LET dated == Those(E, HasExchangeTime)
             R == SortedBy(dated, ExchangeTimes(dated))
             label == BuildExchangeTimeLabel(sample, R, schema)
         IN  StreamExchangeTimeLabel(sample, E, schema) = label /\ Sound(label)
<1> DEFINE dated == Those(E, HasExchangeTime)
           R == SortedBy(dated, ExchangeTimes(dated))
           mid == SampleMid(sample)
           x == IF sample.exchange = NoValue THEN NoValue ELSE sample.exchange + LabelMs
           base == [Unmatched(x, NoReason) EXCEPT
                      !.featureLag = ReceiveLag(sample.wall, sample.exchange),
                      !.featureLocal = sample.ts]
           times == ExchangeTimes(R)
           k == BisectLeft(times, x, 1)
           found == [Matched(base, k, times[k], R[k]) EXCEPT
                       !.eligible = TRUE, !.futureLag = ReceiveLag(R[k].wall, times[k])]
           label == BuildExchangeTimeLabel(sample, R, schema)
<1>1. PICK r, n : DatedOrder(E, R, r, n)
  <2>1. E \in Seq(SeenRow)
    BY DEF InReceiveOrder
  <2> QED BY <2>1, DatedInOrder
<1>2. /\ x = NoValue \/ x \in Int
      /\ IsLabel(base) /\ base.target = x /\ base.index = NoIndex /\ base.future = NoValue
      /\ base.valid = FALSE /\ base.eligible = FALSE
  <2>1. x = NoValue \/ x \in Int
    BY ReferenceAssumption
  <2> HIDE DEF x
  <2> QED BY <2>1 DEF IsLabel, LabelFields, Unmatched
<1>3. label = IF ~schema.supported THEN [base EXCEPT !.reason = schema.reason]
              ELSE IF x = NoValue THEN [base EXCEPT !.reason = "FEATURE_EXCHANGE_TIMESTAMP_MISSING"]
              ELSE IF mid <= 0 THEN [base EXCEPT !.reason = "CURRENT_MID_INVALID"]
              ELSE IF times = << >> \/ x > Last(times) THEN [base EXCEPT !.reason = "NO_FUTURE_REFERENCE"]
              ELSE Judged(found, mid)
  <2> HIDE DEF R, times, base
  <2> QED BY DEF BuildExchangeTimeLabel, times, base
<1> DEFINE j == FirstByExchange(E, x)
           queried == [Matched(base, ExchangeBefore(E, x), ExchangeTime(E[j]), E[j]) EXCEPT
                         !.eligible = TRUE, !.futureLag = ReceiveLag(E[j].wall, ExchangeTime(E[j]))]
           stream == StreamExchangeTimeLabel(sample, E, schema)
<1>4. stream = IF ~schema.supported THEN [base EXCEPT !.reason = schema.reason]
               ELSE IF x = NoValue THEN [base EXCEPT !.reason = "FEATURE_EXCHANGE_TIMESTAMP_MISSING"]
               ELSE IF mid <= 0 THEN [base EXCEPT !.reason = "CURRENT_MID_INVALID"]
               ELSE IF j = NoIndex THEN [base EXCEPT !.reason = "NO_FUTURE_REFERENCE"]
               ELSE Judged(queried, mid)
  <2> HIDE DEF base
  <2> QED BY DEF StreamExchangeTimeLabel, base
<1> HIDE DEF R, x, base, label, stream, mid
<1>5. ASSUME NEW why PROVE Sound([base EXCEPT !.reason = why])
  <2> DEFINE w == [base EXCEPT !.reason = why]
  <2>1. DOMAIN base = LabelFields
    BY <1>2 DEF IsLabel
  <2>2. w.future = NoValue /\ w.valid = FALSE
    BY <1>2, <2>1 DEF LabelFields
  <2> HIDE DEF w
  <2>3. Sound(w)
    BY <2>2 DEF Sound
  <2> QED BY <2>3 DEF w
<1>6. CASE ~schema.supported \/ x = NoValue \/ mid <= 0
  <2> DEFINE why == IF ~schema.supported THEN schema.reason
                    ELSE IF x = NoValue THEN "FEATURE_EXCHANGE_TIMESTAMP_MISSING"
                    ELSE "CURRENT_MID_INVALID"
  <2>1. label = [base EXCEPT !.reason = why] /\ stream = [base EXCEPT !.reason = why]
    <3> HIDE DEF found, queried, times, j
    <3> QED BY <1>3, <1>4, <1>6
  <2> HIDE DEF why
  <2> QED BY <1>5, <2>1 DEF label, stream, R
<1>7. CASE schema.supported /\ x # NoValue /\ ~(mid <= 0)
  <2>1. x \in Int
    BY <1>2, <1>7
  <2>2. /\ times \in Seq(Int) /\ Len(times) = n /\ IsOrdered(times, n)
        /\ k \in 1 .. n + 1 /\ ExchangeBefore(E, x) = k
        /\ j = IF k <= n THEN r[k] ELSE NoIndex
    BY <1>1, <2>1, ExchangeQueries
  <2>3. n \in Nat /\ \A m \in 1 .. n : r[m] \in 1 .. Len(E) /\ R[m] = E[r[m]]
    BY <1>1 DEF DatedOrder
  <2>4. \A m \in 1 .. n : times[m] = ExchangeTime(R[m])
    <3>1. DOMAIN R = 1 .. n
      BY <1>1 DEF DatedOrder
    <3> QED BY <3>1 DEF ExchangeTimes
  <2>5. (times = << >> \/ x > Last(times)) <=> ~(k <= n)
    <3> HIDE DEF times
    <3> QED BY <2>1, <2>2, PastTheLast
  <2>6. \A m \in k .. n : times[m] >= x
    <3>1. 1 \in 1 .. Len(times) + 1 /\ IsOrdered(times, Len(times))
      BY <2>2, <2>3
    <3> HIDE DEF times
    <3> QED BY <2>1, <2>2, <3>1, BisectLeftFinds
  <2>7. j = NoIndex <=> ~(k <= n)
    <3>1. k <= n => r[k] \in 1 .. Len(E) /\ r[k] # 0
      <4>1. k <= n => k \in 1 .. n
        BY <2>2, <2>3
      <4>2. \A i \in 1 .. Len(E) : i # 0
        OBVIOUS
      <4> QED BY <2>3, <4>1, <4>2
    <3> QED BY <2>2, <3>1 DEF NoIndex
  <2> HIDE DEF times
  <2>8. CASE ~(k <= n)
    <3>1. label = [base EXCEPT !.reason = "NO_FUTURE_REFERENCE"]
      <4> HIDE DEF found
      <4> QED BY <1>3, <1>7, <2>5, <2>8
    <3>2. stream = [base EXCEPT !.reason = "NO_FUTURE_REFERENCE"]
      <4> HIDE DEF queried
      <4> QED BY <1>4, <1>7, <2>7, <2>8
    <3> QED BY <1>5, <3>1, <3>2 DEF label, stream, R
  <2>9. CASE k <= n
    <3> HIDE DEF k, j
    <3>1. k \in 1 .. n /\ k \in k .. n
      BY <2>2, <2>3, <2>9
    <3>2. E[j] = R[k] /\ ExchangeTime(E[j]) = times[k]
      BY <2>2, <2>3, <2>4, <2>9, <3>1
    <3>3. queried = found
      BY <2>2, <3>2
    <3>4. label = Judged(found, mid) /\ stream = Judged(found, mid)
      <4>1. label = Judged(found, mid)
        <5> HIDE DEF found
        <5> QED BY <1>3, <1>7, <2>5, <2>9
      <4>2. stream = Judged(queried, mid)
        <5> HIDE DEF queried
        <5> QED BY <1>4, <1>7, <2>7, <2>9
      <4> HIDE DEF found, queried
      <4> QED BY <3>3, <4>1, <4>2
    <3>5. IsLabel(found) /\ found.eligible = TRUE /\ found.future = times[k] /\ found.target = x
      <4>1. DOMAIN base = LabelFields
        BY <1>2 DEF IsLabel
      <4> DEFINE m == Matched(base, k, times[k], R[k])
      <4>2. IsLabel(m) /\ m.future = times[k] /\ m.target = x
        BY <1>2, <4>1 DEF Matched, IsLabel, LabelFields
      <4> HIDE DEF m
      <4>3. DOMAIN m = LabelFields
        BY <4>2 DEF IsLabel
      <4>4. found = [m EXCEPT !.eligible = TRUE, !.futureLag = ReceiveLag(R[k].wall, times[k])]
        BY DEF m
      <4> HIDE DEF found
      <4> QED BY <4>2, <4>3, <4>4 DEF IsLabel, LabelFields
    <3> HIDE DEF found
    <3>6. label.eligible = TRUE /\ label.future = times[k] /\ label.target = x
      BY <3>4, <3>5, JudgedKeeps
    <3>7. times[k] \in Int /\ times[k] >= x
      BY <2>2, <2>6, <3>1
    <3>8. Sound(label)
      BY <2>1, <3>6, <3>7 DEF Sound
    <3> QED BY <3>4, <3>8 DEF label, stream, R
  <2> QED BY <2>8, <2>9
<1> QED BY <1>6, <1>7

-----------------------------------------------------------------------------
(* The rows and the reports of 4.2H. *)

\* What the property says of the labels of 4.2H,
SameRows(rows, protocol, benchmark, corrected) ==
  /\ DOMAIN rows = DOMAIN protocol
  /\ \A i \in DOMAIN protocol, s \in Source :
       /\ rows[i][s].reference = benchmark[i].labels[s]
       /\ rows[i][s].receive = protocol[i][s].receive
       /\ rows[i][s].exchange = protocol[i][s].exchange
       /\ rows[i][s].hybrid = protocol[i][s].hybrid
       /\ rows[i][s].corrected = corrected[i][s]

\* and what makes its reports those of 4.2D and 4.2E.
SoundRows(protocol, corrected) ==
  \A i \in DOMAIN protocol, s \in Source :
    /\ Sound(protocol[i][s].receive) /\ Sound(protocol[i][s].exchange)
    /\ \A b \in Budget :
         /\ protocol[i][s].hybrid[b].valid => protocol[i][s].hybrid[b].eligible
         /\ corrected[i][s][b].valid => corrected[i][s][b].eligible

LEMMA SoundLabel ==
  ASSUME NEW label, Sound(label)
  PROVE  /\ label.valid => label.eligible
         /\ ~(label.future # NoValue /\ label.future < label.target)
         /\ ~(label.valid /\ label.future < label.target)
<1>1. label.future \in Int /\ label.target \in Int /\ label.target <= label.future => ~(label.future < label.target)
  OBVIOUS
<1> QED BY <1>1 DEF Sound

\* The rows of 4.2H are those of 4.2C, 4.2D and 4.2E, for references received in order.
LEMMA StreamRowsSame ==
  ASSUME NEW C \in Seq(CleanRow), NEW E, \A s \in Source : InReceiveOrder(E[s]), NEW summary
  PROVE  LET schema == TimestampSchema(C, E)
             protocol == GenerateTimeProtocolRows(C, E)
             corrected == GenerateCorrectedRows(protocol, summary)
         IN  /\ SameRows([i \in DOMAIN C |-> StreamLabelRow(C[i], E, schema, summary)],
                         protocol, GenerateBenchmarkRows(C, E), corrected)
             /\ SoundRows(protocol, corrected)
             /\ DOMAIN protocol = DOMAIN C
<1> DEFINE schema == TimestampSchema(C, E)
           protocol == GenerateTimeProtocolRows(C, E)
           benchmark == GenerateBenchmarkRows(C, E)
           corrected == GenerateCorrectedRows(protocol, summary)
           rows == [i \in DOMAIN C |-> StreamLabelRow(C[i], E, schema, summary)]
<1>1. DOMAIN rows = DOMAIN C /\ DOMAIN protocol = DOMAIN C
  BY DEF GenerateTimeProtocolRows
<1>2. ASSUME NEW i \in DOMAIN C, NEW s \in Source
      PROVE  /\ rows[i][s].reference = benchmark[i].labels[s]
             /\ rows[i][s].receive = protocol[i][s].receive
             /\ rows[i][s].exchange = protocol[i][s].exchange
             /\ rows[i][s].hybrid = protocol[i][s].hybrid
             /\ rows[i][s].corrected = corrected[i][s]
             /\ Sound(protocol[i][s].receive) /\ Sound(protocol[i][s].exchange)
             /\ \A b \in Budget :
                  /\ protocol[i][s].hybrid[b].valid => protocol[i][s].hybrid[b].eligible
                  /\ corrected[i][s][b].valid => corrected[i][s][b].eligible
  <2> DEFINE sample == C[i]
             received == SortedBy(E[s], Times(E[s]))
             dated == Those(E[s], HasExchangeTime)
             exchanged == SortedBy(dated, ExchangeTimes(dated))
             exchange == BuildExchangeTimeLabel(sample, exchanged, schema[s])
             streamed == StreamExchangeTimeLabel(sample, E[s], schema[s])
             row == rows[i][s]
             kept == protocol[i][s]
  <2>1. sample \in CleanRow
    OBVIOUS
  <2>2. sample.ts \in Int /\ sample.exchange \in Int \cup {NoValue}
    BY <2>1, CleanMid
  <2>3. InReceiveOrder(E[s]) /\ received = E[s]
    BY OrderedTimes
  <2>4. /\ row.reference = StreamReferenceLabel(sample, E[s])
        /\ row.receive = StreamReceiveTimeLabel(sample, E[s])
        /\ row.exchange = streamed
        /\ row.hybrid = [b \in Budget |-> BuildHybridLabel(streamed, b)]
        /\ row.corrected = [b \in Budget |-> BuildCorrectedHybridLabel(streamed, b, summary)]
    <3>1. row = StreamLabelRow(sample, E, schema, summary)[s]
      OBVIOUS
    <3> HIDE DEF schema, row
    <3> QED BY <3>1 DEF StreamLabelRow
  <2>5. benchmark[i].labels[s] = BuildReferenceLabel(sample, received)
    BY DEF GenerateBenchmarkRows
  <2>6. /\ kept.receive = BuildReceiveTimeLabel(sample, received)
        /\ kept.exchange = exchange
        /\ kept.hybrid = [b \in Budget |-> BuildHybridLabel(exchange, b)]
    BY DEF GenerateTimeProtocolRows
  <2>7. corrected[i][s] = [b \in Budget |-> BuildCorrectedHybridLabel(kept.exchange, b, summary)]
    <3> HIDE DEF protocol
    <3> QED BY <1>1 DEF GenerateCorrectedRows
  <2>8. /\ StreamReferenceLabel(sample, E[s]) = BuildReferenceLabel(sample, E[s])
        /\ StreamReceiveTimeLabel(sample, E[s]) = BuildReceiveTimeLabel(sample, E[s])
        /\ Sound(BuildReceiveTimeLabel(sample, E[s]))
    <3> HIDE DEF sample
    <3> QED BY <2>2, <2>3, StreamReferenceSame, StreamReceiveSame
  <2>9. streamed = exchange /\ Sound(exchange)
    <3> HIDE DEF sample, schema
    <3> QED BY <2>2, <2>3, StreamExchangeSame
  <2> HIDE DEF sample, received, exchange, streamed, row, kept, benchmark, corrected
  <2>10. /\ row.reference = benchmark[i].labels[s] /\ row.receive = kept.receive
         /\ row.exchange = kept.exchange /\ row.hybrid = kept.hybrid /\ row.corrected = corrected[i][s]
         /\ Sound(kept.receive) /\ Sound(kept.exchange)
    BY <2>3, <2>4, <2>5, <2>6, <2>7, <2>8, <2>9
  <2>11. exchange.valid => exchange.eligible
    BY <2>9, SoundLabel
  <2>12. ASSUME NEW b \in Budget
         PROVE  /\ kept.hybrid[b].valid => kept.hybrid[b].eligible
                /\ corrected[i][s][b].valid => corrected[i][s][b].eligible
    <3>1. kept.hybrid[b] = BuildHybridLabel(exchange, b)
      BY <2>6
    <3>2. corrected[i][s][b] = BuildCorrectedHybridLabel(exchange, b, summary)
      BY <2>6, <2>7
    <3>3. BuildHybridLabel(exchange, b).valid => BuildHybridLabel(exchange, b).eligible
      BY <2>11 DEF BuildHybridLabel
    <3>4. BuildCorrectedHybridLabel(exchange, b, summary).valid
            => BuildCorrectedHybridLabel(exchange, b, summary).eligible
      BY <2>11 DEF BuildCorrectedHybridLabel
    <3> QED BY <3>1, <3>2, <3>3, <3>4
  <2> QED BY <2>10, <2>12 DEF row, kept
<1> HIDE DEF rows, protocol, benchmark, corrected, schema
<1>3. SameRows(rows, protocol, benchmark, corrected)
  BY <1>1, <1>2 DEF SameRows
<1>4. SoundRows(protocol, corrected)
  BY <1>1, <1>2 DEF SoundRows
<1> QED BY <1>1, <1>3, <1>4 DEF rows, protocol, benchmark, corrected, schema

\* A list of labels, counted as they come or at the end.
LEMMA CountedAsListed ==
  ASSUME NEW n \in Nat, NEW l, l = [i \in 1 .. n |-> l[i]], \A i \in 1 .. n : l[i].valid => l[i].eligible
  PROVE  ProtocolTotals(l) = ProtocolMetrics(l) /\ HybridTotals(l) = HybridMetrics(l)
<1> DEFINE S == {l[i] : i \in 1 .. n}
<1>1. \A i \in 1 .. n : l[i] \in S
  OBVIOUS
<1> HIDE DEF S
<1>2. l \in Seq(S) /\ DOMAIN l = 1 .. n
  BY <1>1
<1> QED BY <1>2, TotalsAreMetrics

\* The reports and the leaks of 4.2H are those of 4.2D and 4.2E.
LEMMA StreamReportsSame ==
  ASSUME NEW n \in Nat, NEW rows, NEW protocol, NEW benchmark, NEW corrected, NEW schema, NEW s \in Source,
         DOMAIN protocol = 1 .. n, DOMAIN corrected = 1 .. n,
         SameRows(rows, protocol, benchmark, corrected), SoundRows(protocol, corrected)
  PROVE  LET report42h == StreamSourceReport(rows, s, schema)
             report42d == SourceProtocolReport(protocol, s, schema)
         IN  /\ report42h.receive = report42d.receive
             /\ report42h.exchange = report42d.exchange
             /\ report42h.hybrid = report42d.hybrid
             /\ report42h.corrected = CorrectedSourceReport(report42d, corrected, s).corrected
             /\ StreamLeaks(rows, s) = ProtocolLeaks(protocol, s)
<1> DEFINE hybrid(b) == [i \in 1 .. n |-> protocol[i][s].hybrid[b]]
           corrects(b) == [i \in 1 .. n |-> corrected[i][s][b]]
           receive == [i \in 1 .. n |-> protocol[i][s].receive]
           exchange == [i \in 1 .. n |-> protocol[i][s].exchange]
<1>1. /\ DOMAIN rows = 1 .. n
      /\ \A i \in 1 .. n : /\ rows[i][s].receive = protocol[i][s].receive
                           /\ rows[i][s].exchange = protocol[i][s].exchange
                           /\ rows[i][s].hybrid = protocol[i][s].hybrid
                           /\ rows[i][s].corrected = corrected[i][s]
  BY DEF SameRows
<1>2. \A i \in 1 .. n :
        /\ Sound(protocol[i][s].receive) /\ Sound(protocol[i][s].exchange)
        /\ \A b \in Budget :
             /\ protocol[i][s].hybrid[b].valid => protocol[i][s].hybrid[b].eligible
             /\ corrected[i][s][b].valid => corrected[i][s][b].eligible
  BY DEF SoundRows
<1>3. /\ [i \in DOMAIN rows |-> rows[i][s].receive] = receive
      /\ [i \in DOMAIN rows |-> rows[i][s].exchange] = exchange
      /\ \A b \in Budget : /\ [i \in DOMAIN rows |-> rows[i][s].hybrid[b]] = hybrid(b)
                           /\ [i \in DOMAIN rows |-> rows[i][s].corrected[b]] = corrects(b)
  BY <1>1
<1>4. /\ ProtocolTotals(receive) = ProtocolMetrics(receive)
      /\ ProtocolTotals(exchange) = ProtocolMetrics(exchange)
  <2>1. \A i \in 1 .. n : (receive[i].valid => receive[i].eligible) /\ (exchange[i].valid => exchange[i].eligible)
    BY <1>2, SoundLabel
  <2>2. receive = [i \in 1 .. n |-> receive[i]] /\ exchange = [i \in 1 .. n |-> exchange[i]]
    OBVIOUS
  <2> HIDE DEF receive, exchange
  <2> QED BY <2>1, <2>2, CountedAsListed
<1>5. ASSUME NEW b \in Budget
      PROVE  HybridTotals(hybrid(b)) = HybridMetrics(hybrid(b)) /\ HybridTotals(corrects(b)) = HybridMetrics(corrects(b))
  <2> DEFINE h == hybrid(b)
             c == corrects(b)
  <2>1. \A i \in 1 .. n : (h[i].valid => h[i].eligible) /\ (c[i].valid => c[i].eligible)
    BY <1>2
  <2>2. h = [i \in 1 .. n |-> h[i]] /\ c = [i \in 1 .. n |-> c[i]]
    OBVIOUS
  <2> HIDE DEF h, c
  <2>3. HybridTotals(h) = HybridMetrics(h) /\ HybridTotals(c) = HybridMetrics(c)
    BY <2>1, <2>2, CountedAsListed
  <2> QED BY <2>3 DEF h, c
<1>6. StreamLeaks(rows, s) = {} /\ ProtocolLeaks(protocol, s) = {}
  <2>1. ASSUME NEW i \in 1 .. n, NEW way \in {"receive", "exchange"}
        PROVE  /\ ~(rows[i][s][way].future # NoValue /\ rows[i][s][way].future < rows[i][s][way].target)
               /\ ~(protocol[i][s][way].valid /\ protocol[i][s][way].future < protocol[i][s][way].target)
    <3>1. rows[i][s][way] = protocol[i][s][way] /\ Sound(protocol[i][s][way])
      BY <1>1, <1>2
    <3> QED BY <3>1, SoundLabel
  <2>2. \A at \in (1 .. n) \X {"receive", "exchange"} : at[1] \in 1 .. n /\ at[2] \in {"receive", "exchange"}
    OBVIOUS
  <2>3. StreamLeaks(rows, s) = {}
    BY <1>1, <2>1, <2>2 DEF StreamLeaks
  <2>4. ProtocolLeaks(protocol, s) = {}
    BY <2>1, <2>2 DEF ProtocolLeaks
  <2> QED BY <2>3, <2>4
<1> DEFINE report42h == StreamSourceReport(rows, s, schema)
           report42d == SourceProtocolReport(protocol, s, schema)
<1>7. /\ report42h.receive = ProtocolTotals([i \in DOMAIN rows |-> rows[i][s].receive])
      /\ report42h.exchange = ProtocolTotals([i \in DOMAIN rows |-> rows[i][s].exchange])
      /\ report42h.hybrid = [b \in Budget |-> HybridTotals([i \in DOMAIN rows |-> rows[i][s].hybrid[b]])]
      /\ report42h.corrected = [b \in Budget |-> HybridTotals([i \in DOMAIN rows |-> rows[i][s].corrected[b]])]
  BY DEF StreamSourceReport
<1>8. /\ report42d.receive = ProtocolMetrics(receive) /\ report42d.exchange = ProtocolMetrics(exchange)
      /\ report42d.hybrid = [b \in Budget |-> HybridMetrics(hybrid(b))]
  BY DEF SourceProtocolReport
<1>9. CorrectedSourceReport(report42d, corrected, s).corrected = [b \in Budget |-> HybridMetrics(corrects(b))]
  BY DEF CorrectedSourceReport
<1> HIDE DEF report42h, report42d, receive, exchange, hybrid, corrects
<1>10. report42h.receive = report42d.receive /\ report42h.exchange = report42d.exchange
  BY <1>3, <1>4, <1>7, <1>8
<1>11. report42h.hybrid = report42d.hybrid
  BY <1>3, <1>5, <1>7, <1>8
<1>12. report42h.corrected = CorrectedSourceReport(report42d, corrected, s).corrected
  <2>1. \A b \in Budget : HybridTotals([i \in DOMAIN rows |-> rows[i][s].corrected[b]])
                            = HybridMetrics(corrects(b))
    BY <1>3, <1>5
  <2> QED BY <1>7, <1>9, <2>1
<1> QED BY <1>6, <1>10, <1>11, <1>12 DEF report42h, report42d

-----------------------------------------------------------------------------
(* The streaming finalisation is the programs in memory. *)

\* StreamMatchesBatch, of any files, report and labels.
StreamMatches(file, files, summary, status, details, rows) ==
  LET validation == ValidateCleanSamples(file)
      samples == validation.samples
      events == SeenAll(file, files)
      protocol == GenerateTimeProtocolRows(samples, events)
      corrected == GenerateCorrectedRows(protocol, summary)
      batch(s) == SourceProtocolReport(protocol, s, TimestampSchema(samples, events))
      stream(s) == details.reports[s]
  IN  /\ validation.valid <=> status = "pass"
      /\ (validation.valid /\ \A s \in Source : Backwards(events[s]) = 0) =>
           /\ SameRows(rows, protocol, GenerateBenchmarkRows(samples, events), corrected)
           /\ \A s \in Source :
                /\ stream(s).receive = batch(s).receive
                /\ stream(s).exchange = batch(s).exchange
                /\ stream(s).hybrid = batch(s).hybrid
                /\ stream(s).corrected = CorrectedSourceReport(batch(s), corrected, s).corrected
                /\ details.leaks[s] = ProtocolLeaks(protocol, s)
                /\ details.stats[s].backwards = Backwards(events[s])
                /\ details.stats[s].over = GapDistribution(events[s]).over
                /\ details.stats[s].overTotal = GapDistribution(events[s]).overTotal

ReportMatches ==
  StreamMatches(report.clean, report.feeds, ClockOffsetSummary(report.measures), report.status,
                report.details, labels)

LEMMA StreamIsOfTheReport == StreamMatchesBatch <=> (Reported(Streaming) => ReportMatches)
<1> DEFINE events == [s \in Source |-> EventsSeen(s)]
<1>1. events = SeenAll(report.clean, report.feeds)
  BY DEF SeenAll, SeenIn, EventsSeen
<1> DEFINE matches(e) ==
      LET validation == ValidateCleanSamples(report.clean)
          samples == validation.samples
          rows == GenerateTimeProtocolRows(samples, e)
          benchmark == GenerateBenchmarkRows(samples, e)
          summary == ClockOffsetSummary(report.measures)
          corrected == GenerateCorrectedRows(rows, summary)
          batch(s) == SourceProtocolReport(rows, s, TimestampSchema(samples, e))
          stream(s) == report.details.reports[s]
      IN  /\ validation.valid <=> report.status = "pass"
          /\ (validation.valid /\ \A s \in Source : Backwards(e[s]) = 0) =>
               /\ SameRows(labels, rows, benchmark, corrected)
               /\ \A s \in Source :
                    /\ stream(s).receive = batch(s).receive
                    /\ stream(s).exchange = batch(s).exchange
                    /\ stream(s).hybrid = batch(s).hybrid
                    /\ stream(s).corrected = CorrectedSourceReport(batch(s), corrected, s).corrected
                    /\ report.details.leaks[s] = ProtocolLeaks(rows, s)
                    /\ report.details.stats[s].backwards = Backwards(e[s])
                    /\ report.details.stats[s].over = GapDistribution(e[s]).over
                    /\ report.details.stats[s].overTotal = GapDistribution(e[s]).overTotal
<1>2. StreamMatchesBatch <=> (Reported(Streaming) => matches(events))
  <2> HIDE DEF events
  <2> QED BY DEF StreamMatchesBatch, SameRows, events
<1>3. ReportMatches <=> matches(SeenAll(report.clean, report.feeds))
  BY DEF ReportMatches, StreamMatches
<1> HIDE DEF matches, events
<1> QED BY <1>1, <1>2, <1>3

\* A run of 4.2H, whether it passes or not.
LEMMA StreamingRun ==
  ASSUME Written, RunStreaming
  PROVE  StreamMatches(clean, feeds, ClockOffsetSummary(measures), report'.status, report'.details, labels')
<1> DEFINE summary == ClockOffsetSummary(measures)
           result == StreamFinalization(clean, feeds, summary)
           C == CleanIn(clean)
           E == SeenAll(clean, feeds)
           schema == TimestampSchema(C, E)
           protocol == GenerateTimeProtocolRows(C, E)
           benchmark == GenerateBenchmarkRows(C, E)
           corrected == GenerateCorrectedRows(protocol, summary)
           valid == ValidateCleanSamples(clean).valid
<1>1. /\ labels' = result.rows /\ report'.details = result
      /\ report'.status = IF result.failure = NoReason THEN "pass" ELSE "fail"
  <2> HIDE DEF result
  <2>1. Run(Streaming, result.rows, IF result.failure = NoReason THEN "pass" ELSE "fail", result)
    BY DEF RunStreaming, result
  <2> QED BY <2>1 DEF Run
<1>2. /\ clean = NoFile \/ clean \in Seq(SampleRow \cup {Torn})
      /\ feeds \in [Feed -> {NoFile} \cup Seq(EventRow \cup {Torn})]
  BY DEF Written
<1> HIDE DEF summary
<1>3. /\ result.rows = [i \in DOMAIN C |-> StreamLabelRow(C[i], E, schema, summary)]
      /\ result.failure = NoReason <=> valid
      /\ \A s \in Source :
           /\ result.reports[s] = StreamSourceReport(result.rows, s, schema)
           /\ result.leaks[s] = StreamLeaks(result.rows, s)
           /\ result.stats[s].backwards = Backwards(E[s])
           /\ result.stats[s].over = GapDistribution(E[s]).over
           /\ result.stats[s].overTotal = GapDistribution(E[s]).overTotal
  BY <1>2, StreamIsRead
<1>4. C \in Seq(CleanRow) /\ \A s \in Source : E[s] \in Seq(SeenRow)
  BY <1>2, AllAreSeen DEF SeenAll
<1>5. valid => ValidateCleanSamples(clean).samples = C
  BY <1>2, CleanInValid
<1> HIDE DEF result, C, E, valid
<1>6. ASSUME \A s \in Source : Backwards(E[s]) = 0
      PROVE  /\ SameRows(result.rows, protocol, benchmark, corrected) /\ SoundRows(protocol, corrected)
             /\ DOMAIN protocol = DOMAIN C
  <2>1. \A s \in Source : InReceiveOrder(E[s])
    BY <1>4, <1>6 DEF InReceiveOrder
  <2> QED BY <1>3, <1>4, <2>1, StreamRowsSame
<1>7. ASSUME \A s \in Source : Backwards(E[s]) = 0, NEW s \in Source
      PROVE  LET batch == SourceProtocolReport(protocol, s, schema)
             IN  /\ result.reports[s].receive = batch.receive
                 /\ result.reports[s].exchange = batch.exchange
                 /\ result.reports[s].hybrid = batch.hybrid
                 /\ result.reports[s].corrected = CorrectedSourceReport(batch, corrected, s).corrected
                 /\ result.leaks[s] = ProtocolLeaks(protocol, s)
  <2>1. Len(C) \in Nat /\ DOMAIN protocol = 1 .. Len(C)
    BY <1>4, <1>6, <1>7
  <2>2. DOMAIN corrected = 1 .. Len(C)
    BY <2>1 DEF GenerateCorrectedRows
  <2>3. SameRows(result.rows, protocol, benchmark, corrected) /\ SoundRows(protocol, corrected)
    BY <1>6, <1>7
  <2> DEFINE n == Len(C)
             rows == result.rows
  <2> HIDE DEF n, rows, protocol, benchmark, corrected, schema
  <2>4. n \in Nat /\ DOMAIN protocol = 1 .. n /\ DOMAIN corrected = 1 .. n
        /\ SameRows(rows, protocol, benchmark, corrected)
    BY <2>1, <2>2, <2>3 DEF n, rows
  <2>5. LET report42h == StreamSourceReport(rows, s, schema)
            report42d == SourceProtocolReport(protocol, s, schema)
        IN  /\ report42h.receive = report42d.receive
            /\ report42h.exchange = report42d.exchange
            /\ report42h.hybrid = report42d.hybrid
            /\ report42h.corrected = CorrectedSourceReport(report42d, corrected, s).corrected
            /\ StreamLeaks(rows, s) = ProtocolLeaks(protocol, s)
    BY <2>3, <2>4, StreamReportsSame
  <2> QED BY <1>3, <2>5 DEF rows
<1>8. valid <=> report'.status = "pass"
  BY <1>1, <1>3
<1>9. CASE valid /\ \A s \in Source : Backwards(E[s]) = 0
  <2>1. SameRows(labels', protocol, benchmark, corrected)
    BY <1>1, <1>6, <1>9
  <2>2. \A s \in Source :
          LET batch == SourceProtocolReport(protocol, s, schema)
              details == report'.details
          IN  /\ details.reports[s].receive = batch.receive
              /\ details.reports[s].exchange = batch.exchange
              /\ details.reports[s].hybrid = batch.hybrid
              /\ details.reports[s].corrected = CorrectedSourceReport(batch, corrected, s).corrected
              /\ details.leaks[s] = ProtocolLeaks(protocol, s)
              /\ details.stats[s].backwards = Backwards(E[s])
              /\ details.stats[s].over = GapDistribution(E[s]).over
              /\ details.stats[s].overTotal = GapDistribution(E[s]).overTotal
    BY <1>1, <1>3, <1>7, <1>9
  <2>3. ValidateCleanSamples(clean).samples = C
    BY <1>5, <1>9
  <2> QED BY <1>8, <2>1, <2>2, <2>3 DEF StreamMatches, valid, E, summary
<1>10. CASE ~(valid /\ \A s \in Source : Backwards(E[s]) = 0)
  BY <1>8, <1>10 DEF StreamMatches, valid, E
<1> QED BY <1>9, <1>10

StreamInvariant == Written /\ StreamMatchesBatch

\* Only a run of 4.2H changes its labels and report.
LEMMA StreamInvariantStays ==
  ASSUME StreamInvariant, [Next]_vars
  PROVE  StreamInvariant'
<1> USE DEF StreamInvariant
<1>1. Written'
  BY WrittenStays
<1> DEFINE Streams == Reported(Streaming) => ReportMatches
<1>2. Streams
  BY StreamIsOfTheReport
<1> SUFFICES Streams'
  BY <1>1, StreamIsOfTheReport, PTL
<1>3. CASE UNCHANGED <<program, labels, report>>
  BY <1>2, <1>3 DEF ReportMatches, Reported
<1>4. ASSUME NEW p, NEW written, NEW status, NEW details, Run(p, written, status, details), p # Streaming
      PROVE  Streams'
  BY <1>4 DEF Run, Reported
<1>5. CASE RunStreaming
  <2>1. StreamMatches(clean, feeds, ClockOffsetSummary(measures), report'.status, report'.details, labels')
    BY <1>5, StreamingRun
  <2>2. report'.clean = clean /\ report'.feeds = feeds /\ report'.measures = measures
    BY <1>5 DEF RunStreaming, Run
  <2> QED BY <2>1, <2>2 DEF ReportMatches
<1>6. CASE RunLabels
  BY <1>4, <1>6, NamesDiffer DEF RunLabels
<1>7. CASE RunBookTicker
  BY <1>4, <1>7, NamesDiffer DEF RunBookTicker
<1>8. CASE RunBenchmark
  BY <1>4, <1>8, NamesDiffer DEF RunBenchmark
<1>9. CASE RunProtocol
  BY <1>4, <1>9, NamesDiffer DEF RunProtocol
<1>10. CASE RunCorrected
  BY <1>4, <1>10, NamesDiffer DEF RunCorrected
<1>11. UNCHANGED <<program, labels, report>> \/ RunLabels \/ RunBookTicker \/ RunBenchmark
         \/ RunProtocol \/ RunCorrected \/ RunStreaming
  BY DEF Next, vars, AppendClean, AppendReference, MeasureClock, StepClock
<1> QED BY <1>3, <1>5, <1>6, <1>7, <1>8, <1>9, <1>10, <1>11

\* Whatever the capture left, the streaming finalisation passes exactly the files of
\* clean samples the other programs accept, and on such a file, when its feeds were
\* received in order, its labels, counts, percentiles and leaks are those the programs
\* in memory compute: reading line by line, querying a table and counting as it goes
\* come to what sorting, bisecting and counting at the end do
\* (run_phase42h_streaming_finalization, EventStore, _observe_labels).
THEOREM ResearchStreamMatchesBatch == Spec => []StreamMatchesBatch
<1>1. Init => StreamInvariant
  <2>1. Init => Written
    BY LabelsInvariantStarts DEF LabelsInvariant
  <2>2. Init => ~Reported(Streaming)
    BY DEF Init, Reported
  <2> QED BY <2>1, <2>2, StreamIsOfTheReport DEF StreamInvariant
<1>2. StreamInvariant /\ [Next]_vars => StreamInvariant'
  BY StreamInvariantStays
<1>3. StreamInvariant => StreamMatchesBatch
  BY DEF StreamInvariant
<1> QED BY <1>1, <1>2, <1>3, PTL DEF Spec

===============================================================================
