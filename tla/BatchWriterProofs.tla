-------------------------- MODULE BatchWriterProofs --------------------------
(* Theorems about BatchWriter, for every number of files and rows and every   *)
(* size of the queue and of a batch.                                          *)
EXTENDS BatchWriter, SequenceTheorems, TLAPS

USE DEF InSeq

\* What InSeq makes of the sequences the steps build.
LEMMA InAppended ==
  ASSUME NEW S, NEW s \in Seq(S), NEW x \in S, NEW n
  PROVE  InSeq(n, Append(s, x)) <=> InSeq(n, s) \/ n = x
<1>1. /\ Len(Append(s, x)) = Len(s) + 1 /\ Len(s) \in Nat
      /\ \A i \in 1..Len(s) : Append(s, x)[i] = s[i]
      /\ Append(s, x)[Len(s) + 1] = x
  BY AppendProperties
<1>2. \A i \in 1..(Len(s) + 1) : i \in 1..Len(s) \/ i = Len(s) + 1
  BY <1>1
<1>3. 1..Len(s) \subseteq 1..(Len(s) + 1) /\ Len(s) + 1 \in 1..(Len(s) + 1)
  BY <1>1
<1>. QED BY <1>1, <1>2, <1>3

\* An element of a list is its head or in its tail.
LEMMA InHeadOrTail ==
  ASSUME NEW S, NEW s \in Seq(S), s # <<>>, NEW n
  PROVE  InSeq(n, s) <=> n = Head(s) \/ InSeq(n, Tail(s))
<1>1. /\ Len(s) \in Nat \ {0} /\ Head(s) = s[1] /\ Len(Tail(s)) = Len(s) - 1
      /\ \A i \in 1..Len(Tail(s)) : Tail(s)[i] = s[i + 1]
  BY HeadTailProperties
<1>2. ASSUME InSeq(n, s) PROVE n = Head(s) \/ InSeq(n, Tail(s))
  <2>1. PICK i \in 1..Len(s) : s[i] = n
    BY <1>2
  <2>2. CASE i = 1
    BY <1>1, <2>1, <2>2
  <2>3. CASE i # 1
    <3>1. i - 1 \in 1..Len(Tail(s)) /\ (i - 1) + 1 = i
      BY <1>1, <2>3
    <3>2. Tail(s)[i - 1] = s[(i - 1) + 1]
      BY <1>1, <3>1
    <3>. QED BY <2>1, <3>1, <3>2
  <2>. QED BY <2>2, <2>3
<1>3. ASSUME InSeq(n, Tail(s)) PROVE InSeq(n, s)
  <2>1. PICK i \in 1..Len(Tail(s)) : Tail(s)[i] = n
    BY <1>3
  <2>2. i + 1 \in 1..Len(s) /\ s[i + 1] = n
    BY <1>1, <2>1
  <2>. QED BY <2>2
<1>4. n = Head(s) => InSeq(n, s)
  <2>1. 1 \in 1..Len(s)
    BY <1>1
  <2>. QED BY <1>1, <2>1
<1>. QED BY <1>2, <1>3, <1>4

\* An element of either list is in both together.
LEMMA InConcat ==
  ASSUME NEW S, NEW s \in Seq(S), NEW t \in Seq(S), NEW n, InSeq(n, s) \/ InSeq(n, t)
  PROVE  InSeq(n, s \o t)
<1>1. /\ Len(s) \in Nat /\ Len(t) \in Nat /\ Len(s \o t) = Len(s) + Len(t)
      /\ \A i \in 1..(Len(s) + Len(t)) :
           (s \o t)[i] = IF i <= Len(s) THEN s[i] ELSE t[i - Len(s)]
  BY ConcatProperties
<1>2. ASSUME NEW i \in 1..Len(s), s[i] = n PROVE InSeq(n, s \o t)
  <2>1. i \in 1..(Len(s) + Len(t)) /\ i <= Len(s)
    BY <1>1
  <2>. QED BY <1>1, <1>2, <2>1
<1>3. ASSUME NEW i \in 1..Len(t), t[i] = n PROVE InSeq(n, s \o t)
  <2>1. i + Len(s) \in 1..(Len(s) + Len(t)) /\ ~(i + Len(s) <= Len(s))
        /\ (i + Len(s)) - Len(s) = i
    BY <1>1
  <2>. QED BY <1>1, <1>3, <2>1
<1>. QED BY <1>2, <1>3

-----------------------------------------------------------------------------
(* The inductive invariant.                                                         *)

WriterInvariant == TypeOK /\ NothingMissing

\* The rows of a list stay rows when another is submitted.
LEMMA SeqGrows ==
  ASSUME NEW m \in Nat, NEW s \in Seq(1..m)
  PROVE  s \in Seq(1..(m + 1))
<1>1. 1..m \subseteq 1..(m + 1)
  OBVIOUS
<1>2. Len(s) \in Nat /\ s \in [1..Len(s) -> 1..m]
  BY LenProperties
<1>3. s \in [1..Len(s) -> 1..(m + 1)]
  BY <1>1, <1>2
<1>. QED BY <1>2, <1>3, SeqDef

\* The invariant holds at first,
LEMMA InitWriter == Init => WriterInvariant
<1> SUFFICES ASSUME Init PROVE TypeOK /\ NothingMissing
  BY DEF WriterInvariant
<1>1. Len(submitted) = 0 /\ Row = {} /\ submitted \in Seq(Path)
  BY DEF Init, Row
<1>2. <<>> \in Seq(Row) /\ Len(<<>>) = 0 /\ NoRows \in [Path -> Seq(Row)]
  BY DEF NoRows
<1>3. TypeOK
  <2>1. queue \in Seq(Row) /\ Len(queue) <= QueueSize /\ batch \in Seq(Row) /\ Len(batch) <= BatchSize
    BY <1>2, WriterAssumption DEF Init
  <2>2. buffer \in [Path -> Seq(Row)] /\ files \in [Path -> Seq(Row)]
    BY <1>2 DEF Init
  <2>3. Len(submitted) <= MaxRows /\ dropped \in Nat /\ errors \in 0..MaxErrors
    BY <1>1, WriterAssumption DEF Init
  <2>4. /\ producer \in {"open", "joining", "closed"} /\ stop \in BOOLEAN
        /\ flush_completed \in BOOLEAN /\ thread \in {"check", "get", "fill", "write", "dead"}
    BY DEF Init
  <2>. QED BY <1>1, <2>1, <2>2, <2>3, <2>4 DEF TypeOK
<1>. QED BY <1>1, <1>3 DEF Init, NothingMissing

\* after a call of enqueue_jsonl,
LEMMA EnqueueWriter ==
  ASSUME WriterInvariant, NEW p \in Path, EnqueueJsonl(p)
  PROVE  WriterInvariant'
<1> DEFINE n == Len(submitted) + 1
<1>1. /\ submitted \in Seq(Path) /\ Len(submitted) \in Nat /\ MaxRows \in Nat
      /\ QueueSize \in Nat \ {0} /\ queue \in Seq(Row) /\ Len(queue) \in Nat
      /\ Len(queue) <= QueueSize /\ dropped \in Nat
      /\ batch \in Seq(Row) /\ buffer \in [Path -> Seq(Row)] /\ files \in [Path -> Seq(Row)]
  BY WriterAssumption DEF WriterInvariant, TypeOK
<1>2. /\ submitted' = Append(submitted, p) /\ Len(submitted) < MaxRows /\ producer = "open"
      /\ UNCHANGED <<producer, stop, thread, batch, buffer, files, errors, flush_completed>>
      /\ IF Len(queue) < QueueSize THEN queue' = Append(queue, n) /\ UNCHANGED dropped
                                   ELSE dropped' = dropped + 1 /\ UNCHANGED queue
  BY DEF EnqueueJsonl
<1>3. /\ submitted' \in Seq(Path) /\ Len(submitted') = n /\ n \in Nat
      /\ \A i \in Row : submitted'[i] = submitted[i]
      /\ submitted'[n] = p
  BY <1>1, <1>2, AppendProperties DEF Row
<1>4. \A t \in Seq(Row) : t \in Seq(Row')
  BY <1>1, <1>3, SeqGrows DEF Row
<1>5. queue' \in Seq(Row') /\ Len(queue') <= QueueSize /\ dropped' \in Nat
  <2>1. CASE Len(queue) < QueueSize
    <3>1. n \in Row'
      BY <1>3 DEF Row
    <3>2. queue \in Seq(Row')
      BY <1>1, <1>4
    <3> HIDE DEF n
    <3>3. queue' = Append(queue, n) /\ dropped' = dropped
      BY <1>2, <2>1
    <3>4. queue' \in Seq(Row') /\ Len(queue') = Len(queue) + 1
      BY <3>1, <3>2, <3>3, AppendProperties
    <3>. QED BY <1>1, <2>1, <3>3, <3>4
  <2>2. CASE ~(Len(queue) < QueueSize)
    BY <1>1, <1>2, <1>4, <2>2
  <2>. QED BY <2>1, <2>2
<1>6. TypeOK'
  <2>1. batch' \in Seq(Row') /\ Len(batch') <= BatchSize
    BY <1>1, <1>2, <1>4 DEF WriterInvariant, TypeOK
  <2>2. buffer' \in [Path -> Seq(Row')] /\ files' \in [Path -> Seq(Row')]
    BY <1>1, <1>2, <1>4
  <2>3. Len(submitted') <= MaxRows
    BY <1>1, <1>2, <1>3
  <2>. QED BY <1>2, <1>3, <1>5, <2>1, <2>2, <2>3 DEF WriterInvariant, TypeOK
<1>7. ASSUME dropped' = 0, errors' = 0, NEW i \in Row'
      PROVE  Held(i)'
  <2>1. queue' = Append(queue, n) /\ dropped = 0 /\ errors = 0
    BY <1>1, <1>2, <1>7
  <2>2. i \in Row \/ i = n
    BY <1>1, <1>3 DEF Row
  <2>3. InSeq(i, queue') <=> InSeq(i, queue) \/ i = n
    <3>1. queue \in Seq(Nat) /\ n \in Nat
      BY <1>1, <1>3 DEF Row
    <3>. QED BY <2>1, <3>1, InAppended
  <2>4. CASE i \in Row
    <3>1. Held(i)
      BY <2>1, <2>4 DEF WriterInvariant, NothingMissing
    <3>2. submitted'[i] = submitted[i] /\ UNCHANGED <<batch, buffer, files>>
      BY <1>2, <1>3, <2>4
    <3> HIDE DEF InSeq
    <3>. QED BY <2>3, <3>1, <3>2 DEF Held
  <2>5. CASE i = n
    BY <2>3, <2>5 DEF Held
  <2>. QED BY <2>2, <2>4, <2>5
<1>8. NothingMissing'
  BY <1>2, <1>7 DEF WriterInvariant, NothingMissing
<1>. QED BY <1>6, <1>8 DEF WriterInvariant

\* The steps that leave the rows where they are.
LEMMA ControlWriter ==
  ASSUME WriterInvariant,
         Close \/ JoinReturns \/ CheckStop \/ GetTimesOut \/ UNCHANGED vars
  PROVE  WriterInvariant'
<1>1. UNCHANGED <<submitted, queue, batch, buffer, files, dropped, errors>>
  BY DEF Close, JoinReturns, CheckStop, GetTimesOut, producerVars, vars
<1>2. /\ producer' \in {"open", "joining", "closed"} /\ stop' \in BOOLEAN
      /\ flush_completed' \in BOOLEAN /\ thread' \in {"check", "get", "fill", "write", "dead"}
  BY DEF WriterInvariant, TypeOK, Close, StopSet, JoinReturns, FlushCompleted, CheckStop,
         GetTimesOut, producerVars, vars
<1>3. TypeOK'
  BY <1>1, <1>2 DEF WriterInvariant, TypeOK, Row
<1>4. Row' = Row /\ \A n : Held(n)' <=> Held(n)
  BY <1>1 DEF Row, Held
<1>5. NothingMissing'
  <2>1. CASE Close
    BY <1>1, <1>4, <2>1 DEF WriterInvariant, NothingMissing, TypeOK, Close, StopSet, NoRows
  <2>2. CASE JoinReturns
    BY <1>1, <1>4, <2>2 DEF WriterInvariant, NothingMissing, JoinReturns, FlushCompleted, NoRows
  <2>3. CASE CheckStop
    BY <1>1, <1>4, <2>3
    DEF WriterInvariant, NothingMissing, TypeOK, CheckStop, KeepsRunning, producerVars, NoRows
  <2>4. CASE GetTimesOut
    BY <1>1, <1>4, <2>4 DEF WriterInvariant, NothingMissing, GetTimesOut, producerVars, NoRows
  <2>5. CASE UNCHANGED vars
    BY <1>1, <1>4, <2>5 DEF WriterInvariant, NothingMissing, vars, NoRows
  <2>. QED BY <2>1, <2>2, <2>3, <2>4, <2>5
<1>. QED BY <1>3, <1>5 DEF WriterInvariant

\* after a row is taken off the queue,
LEMMA TakeWriter ==
  ASSUME WriterInvariant, GetFirst \/ FillBatch
  PROVE  WriterInvariant'
<1>1. CASE FillBatch /\ ~(BatchHasRoom /\ queue # <<>>)
  <2>1. /\ thread = "fill" /\ thread' = "write"
        /\ UNCHANGED <<producerVars, queue, batch, buffer, files, errors>>
    BY <1>1 DEF FillBatch
  <2>2. Row' = Row /\ \A n : Held(n)' <=> Held(n)
    BY <2>1 DEF Row, Held, producerVars
  <2>. QED BY <2>1, <2>2 DEF WriterInvariant, TypeOK, NothingMissing, producerVars, NoRows, Row
<1>2. CASE GetFirst \/ (FillBatch /\ BatchHasRoom /\ queue # <<>>)
  <2>1. /\ queue # <<>> /\ queue' = Tail(queue) /\ batch' = Append(batch, Head(queue))
        /\ thread \in {"get", "fill"} /\ thread' = "fill" /\ Len(batch) < BatchSize
        /\ UNCHANGED <<submitted, producer, stop, dropped, flush_completed, buffer, files, errors>>
        /\ buffer = NoRows
    <3>1. CASE GetFirst
      <4>1. batch = <<>>
        BY <3>1 DEF GetFirst, WriterInvariant, NothingMissing
      <4>2. batch' = Append(batch, Head(queue)) /\ Len(batch) < BatchSize
        BY <3>1, <4>1, WriterAssumption DEF GetFirst
      <4>. QED BY <3>1, <4>2 DEF GetFirst, producerVars, WriterInvariant, NothingMissing
    <3>2. CASE FillBatch /\ BatchHasRoom /\ queue # <<>>
      BY <3>2 DEF FillBatch, BatchHasRoom, Extended, producerVars, WriterInvariant, NothingMissing
    <3>. QED BY <1>2, <3>1, <3>2
  <2>2. /\ queue \in Seq(Row) /\ batch \in Seq(Row) /\ Len(queue) <= QueueSize
        /\ Len(queue) \in Nat /\ Len(batch) \in Nat /\ BatchSize \in Nat /\ QueueSize \in Nat
    BY WriterAssumption DEF WriterInvariant, TypeOK
  <2>3. Head(queue) \in Row /\ Tail(queue) \in Seq(Row) /\ Len(Tail(queue)) = Len(queue) - 1
    BY <2>1, <2>2, HeadTailProperties
  <2>4. Append(batch, Head(queue)) \in Seq(Row) /\ Len(Append(batch, Head(queue))) = Len(batch) + 1
    BY <2>2, <2>3, AppendProperties
  <2>5. /\ queue' \in Seq(Row) /\ Len(queue') <= QueueSize
        /\ batch' \in Seq(Row) /\ Len(batch') <= BatchSize
    BY <2>1, <2>2, <2>3, <2>4
  <2>6. Row' = Row
    BY <2>1 DEF Row
  <2>7. TypeOK'
    BY <2>1, <2>5, <2>6 DEF WriterInvariant, TypeOK
  <2>8. ASSUME NEW n \in Row, Held(n) PROVE Held(n)'
    <3> HIDE DEF InSeq
    <3>1. InSeq(n, queue) <=> n = Head(queue) \/ InSeq(n, queue')
      BY <2>1, <2>2, InHeadOrTail
    <3>2. InSeq(n, batch') <=> InSeq(n, batch) \/ n = Head(queue)
      BY <2>1, <2>2, <2>3, InAppended
    <3>. QED BY <2>1, <2>8, <3>1, <3>2 DEF Held
  <2>9. NothingMissing'
    BY <2>1, <2>6, <2>8 DEF WriterInvariant, NothingMissing, NoRows
  <2>. QED BY <2>7, <2>9 DEF WriterInvariant
<1>. QED BY <1>1, <1>2

\* after a row is written to its buffer,
LEMMA WriteRowWriter ==
  ASSUME WriterInvariant, WriteRow
  PROVE  WriterInvariant'
<1> DEFINE h == Head(batch)  q == submitted[h]
<1>1. /\ batch # <<>> /\ thread = "write" /\ batch' = Tail(batch)
      /\ buffer' = [buffer EXCEPT ![q] = Append(@, h)]
      /\ UNCHANGED <<submitted, producer, stop, dropped, flush_completed, queue, thread, files, errors>>
  BY DEF WriteRow, producerVars
<1>2. /\ submitted \in Seq(Path) /\ batch \in Seq(Row) /\ Len(batch) <= BatchSize
      /\ Len(batch) \in Nat /\ BatchSize \in Nat /\ buffer \in [Path -> Seq(Row)]
  BY WriterAssumption DEF WriterInvariant, TypeOK
<1>3. h \in Row /\ Tail(batch) \in Seq(Row) /\ Len(Tail(batch)) = Len(batch) - 1
  BY <1>1, <1>2, HeadTailProperties
<1>4. \A n \in Row : submitted[n] \in Path
  BY <1>2 DEF Row
<1>5. q \in Path /\ buffer[q] \in Seq(Row)
  BY <1>2, <1>3, <1>4
<1>6. Append(buffer[q], h) \in Seq(Row)
  BY <1>3, <1>5, AppendProperties
<1>7. buffer' \in [Path -> Seq(Row)]
  <2> HIDE DEF h, q
  <2>. QED BY <1>1, <1>2, <1>5, <1>6
<1>8. Row' = Row
  BY <1>1 DEF Row
<1>9. TypeOK'
  BY <1>1, <1>2, <1>3, <1>7, <1>8 DEF WriterInvariant, TypeOK
<1>10. ASSUME NEW n \in Row, Held(n) PROVE Held(n)'
  <2> HIDE DEF InSeq, h, q
  <2>1. InSeq(n, batch) <=> n = h \/ InSeq(n, batch')
    BY <1>1, <1>2, InHeadOrTail DEF h
  <2>2. InSeq(n, Append(buffer[q], h)) <=> InSeq(n, buffer[q]) \/ n = h
    BY <1>3, <1>5, InAppended
  <2>3. InSeq(n, buffer[submitted[n]]) => InSeq(n, buffer'[submitted[n]])
    BY <1>1, <1>2, <1>4, <2>2
  <2>4. n = h => InSeq(n, buffer'[submitted[n]])
    BY <1>1, <1>2, <1>5, <2>2 DEF q
  <2>. QED BY <1>1, <1>10, <2>1, <2>3, <2>4 DEF Held
<1>11. NothingMissing'
  BY <1>1, <1>8, <1>10 DEF WriterInvariant, NothingMissing, NoRows
<1>. QED BY <1>9, <1>11 DEF WriterInvariant

\* after a batch is flushed,
LEMMA FlushWriter ==
  ASSUME WriterInvariant, FlushBatch
  PROVE  WriterInvariant'
<1>1. /\ thread = "write" /\ batch = <<>> /\ thread' = "check" /\ buffer' = NoRows
      /\ files' = [p \in Path |-> files[p] \o buffer[p]]
      /\ UNCHANGED <<submitted, producer, stop, dropped, flush_completed, queue, batch, errors>>
  BY DEF FlushBatch, producerVars
<1>2. /\ submitted \in Seq(Path) /\ buffer \in [Path -> Seq(Row)] /\ files \in [Path -> Seq(Row)]
  BY DEF WriterInvariant, TypeOK
<1>3. \A p \in Path : files[p] \o buffer[p] \in Seq(Row)
  BY <1>2, ConcatProperties
<1>4. Row' = Row /\ files' \in [Path -> Seq(Row)] /\ NoRows \in [Path -> Seq(Row)]
  BY <1>1, <1>3 DEF Row, NoRows
<1>5. TypeOK'
  BY <1>1, <1>4 DEF WriterInvariant, TypeOK
<1>6. ASSUME NEW n \in Row, Held(n) PROVE Held(n)'
  <2>1. submitted[n] \in Path
    BY <1>2 DEF Row
  <2>2. ~InSeq(n, batch)
    BY <1>1
  <2> HIDE DEF InSeq
  <2>3. InSeq(n, files[submitted[n]]) \/ InSeq(n, buffer[submitted[n]])
          => InSeq(n, files[submitted[n]] \o buffer[submitted[n]])
    BY <1>2, <2>1, InConcat
  <2>. QED BY <1>1, <1>6, <2>1, <2>2, <2>3 DEF Held
<1>7. NothingMissing'
  BY <1>1, <1>4, <1>6 DEF WriterInvariant, NothingMissing, NoRows
<1>. QED BY <1>5, <1>7 DEF WriterInvariant

\* and after a batch fails with any part of its buffers on disk.
LEMMA FailWriter ==
  ASSUME WriterInvariant, NEW kept \in [Path -> 0..BatchSize], BatchFails(kept)
  PROVE  WriterInvariant'
<1>1. /\ thread = "write" /\ batch' = <<>> /\ thread' = "check" /\ buffer' = NoRows
      /\ files' = [p \in Path |-> files[p] \o SubSeq(buffer[p], 1, kept[p])]
      /\ errors < MaxErrors /\ errors' = errors + 1
      /\ \A p \in Path : kept[p] <= Len(buffer[p])
      /\ UNCHANGED <<submitted, producer, stop, dropped, flush_completed, queue>>
  BY DEF BatchFails, ErrorCounted, producerVars
<1>2. /\ buffer \in [Path -> Seq(Row)] /\ files \in [Path -> Seq(Row)]
      /\ errors \in Nat /\ MaxErrors \in Nat /\ BatchSize \in Nat
  BY WriterAssumption DEF WriterInvariant, TypeOK
<1>3. ASSUME NEW p \in Path PROVE files[p] \o SubSeq(buffer[p], 1, kept[p]) \in Seq(Row)
  <2>1. SubSeq(buffer[p], 1, kept[p]) \in Seq(Row)
    <3>1. /\ buffer[p] \in Seq(Row) /\ 1 \in 1..(Len(buffer[p]) + 1)
          /\ kept[p] \in (1-1)..Len(buffer[p])
      BY <1>1, <1>2, LenProperties
    <3>. QED BY <3>1, SubSeqProperties
  <2>. QED BY <1>2, <2>1, ConcatProperties
<1>4. Row' = Row /\ files' \in [Path -> Seq(Row)] /\ NoRows \in [Path -> Seq(Row)]
  BY <1>1, <1>3 DEF Row, NoRows
<1>5. batch' \in Seq(Row) /\ Len(batch') <= BatchSize /\ errors' \in 0..MaxErrors /\ errors' # 0
  BY <1>1, <1>2
<1>6. TypeOK'
  BY <1>1, <1>4, <1>5 DEF WriterInvariant, TypeOK
<1>7. NothingMissing'
  BY <1>1, <1>5 DEF WriterInvariant, NothingMissing, NoRows
<1>. QED BY <1>6, <1>7 DEF WriterInvariant

-----------------------------------------------------------------------------
\* Every reachable state satisfies the inductive invariant.
THEOREM WriterCorrect == Spec => []WriterInvariant
<1>1. Init => WriterInvariant
  BY InitWriter
<1>2. WriterInvariant /\ [Next]_vars => WriterInvariant'
  <2> SUFFICES ASSUME WriterInvariant, [Next]_vars PROVE WriterInvariant'
    OBVIOUS
  <2>1. ASSUME NEW p \in Path, EnqueueJsonl(p) PROVE WriterInvariant'
    BY <2>1, EnqueueWriter
  <2>2. CASE Close \/ JoinReturns \/ CheckStop \/ GetTimesOut \/ UNCHANGED vars
    BY <2>2, ControlWriter
  <2>3. CASE GetFirst \/ FillBatch
    BY <2>3, TakeWriter
  <2>4. CASE WriteRow
    BY <2>4, WriteRowWriter
  <2>5. CASE FlushBatch
    BY <2>5, FlushWriter
  <2>6. ASSUME NEW kept \in [Path -> 0..BatchSize], BatchFails(kept) PROVE WriterInvariant'
    BY <2>6, FailWriter
  <2>. QED BY <2>1, <2>2, <2>3, <2>4, <2>5, <2>6 DEF Next, Thread, Finished
<1>. QED BY <1>1, <1>2, PTL DEF Spec

\* Every state is typed: no batch exceeds batch_size, no queue its maximum.
THEOREM WriterTypes == Spec => []TypeOK
BY WriterCorrect, PTL DEF WriterInvariant

\* A report of "pass" means that every row enqueued is in its file.
THEOREM PassIsWritten == Spec => []PassMeansWritten
<1>1. WriterInvariant => PassMeansWritten
  <2> SUFFICES ASSUME WriterInvariant, producer = "closed", flush_completed, dropped = 0,
                      errors = 0, NEW n \in Row
               PROVE  InSeq(n, files[submitted[n]])
    BY DEF PassMeansWritten
  <2>1. thread = "dead" /\ queue = <<>> /\ batch = <<>> /\ buffer = NoRows /\ Held(n)
    BY DEF WriterInvariant, NothingMissing
  <2>2. submitted[n] \in Path
    BY DEF WriterInvariant, TypeOK, Row
  <2>3. ~InSeq(n, queue) /\ ~InSeq(n, batch) /\ ~InSeq(n, buffer[submitted[n]])
    BY <2>1, <2>2 DEF NoRows
  <2>. QED BY <2>1, <2>3 DEF Held
<1>. QED BY <1>1, WriterCorrect, PTL

\* The writer thread exits only when nothing is queued.
THEOREM ExitsDrained == Spec => []DrainedOnExit
<1>1. WriterInvariant => DrainedOnExit
  BY DEF WriterInvariant, NothingMissing, DrainedOnExit
<1>. QED BY <1>1, WriterCorrect, PTL

-----------------------------------------------------------------------------
(* The order of the rows: from the queue through the batch and the handles to the   *)
(* files, later stages hold earlier rows.                                           *)

Increasing(s) == \A i, j \in 1..Len(s) : i < j => s[i] < s[j]
Before(s, t) == \A i \in 1..Len(s), j \in 1..Len(t) : s[i] < t[j]
AllBelow(s, x) == \A i \in 1..Len(s) : s[i] < x
AllAbove(x, t) == \A j \in 1..Len(t) : x < t[j]

\* Order and appending a row.
LEMMA AppendOrder ==
  ASSUME NEW s \in Seq(Nat), NEW t \in Seq(Nat), NEW x \in Nat
  PROVE  /\ Increasing(s) /\ AllBelow(s, x) => Increasing(Append(s, x))
         /\ Before(s, t) /\ AllAbove(x, t) => Before(Append(s, x), t)
         /\ Before(t, s) /\ AllBelow(t, x) => Before(t, Append(s, x))
<1>1. /\ Len(Append(s, x)) = Len(s) + 1 /\ Len(s) \in Nat /\ Len(t) \in Nat
      /\ \A i \in 1..Len(s) : Append(s, x)[i] = s[i]
      /\ Append(s, x)[Len(s) + 1] = x
  BY AppendProperties
<1>2. \A i \in 1..(Len(s) + 1) : i \in 1..Len(s) \/ i = Len(s) + 1
  BY <1>1
<1> DEFINE a == Append(s, x)
<1>3. /\ Len(a) = Len(s) + 1 /\ \A i \in 1..Len(s) : a[i] = s[i]
      /\ a[Len(s) + 1] = x
  BY <1>1
<1> HIDE DEF a
<1>4. Increasing(s) /\ AllBelow(s, x) => Increasing(a)
  <2> SUFFICES ASSUME Increasing(s), AllBelow(s, x), NEW i \in 1..Len(a), NEW j \in 1..Len(a), i < j
               PROVE  a[i] < a[j]
    BY DEF Increasing
  <2>1. i \in 1..Len(s)
    BY <1>1, <1>3
  <2>2. j \in 1..Len(s) \/ j = Len(s) + 1
    BY <1>2, <1>3
  <2>. QED BY <1>3, <2>1, <2>2 DEF Increasing, AllBelow
<1>5. Before(s, t) /\ AllAbove(x, t) => Before(a, t)
  BY <1>2, <1>3 DEF Before, AllAbove
<1>6. Before(t, s) /\ AllBelow(t, x) => Before(t, a)
  BY <1>2, <1>3 DEF Before, AllBelow
<1>. QED BY <1>4, <1>5, <1>6 DEF a

\* Order and taking the first row.
LEMMA TailOrder ==
  ASSUME NEW s \in Seq(Nat), NEW t \in Seq(Nat), s # <<>>
  PROVE  /\ Tail(s) \in Seq(Nat) /\ Head(s) \in Nat
         /\ Increasing(s) => Increasing(Tail(s)) /\ AllAbove(Head(s), Tail(s))
         /\ Before(t, s) => Before(t, Tail(s)) /\ AllBelow(t, Head(s))
         /\ Before(s, t) => Before(Tail(s), t) /\ AllAbove(Head(s), t)
<1> DEFINE r == Tail(s)
<1>1. /\ Len(s) \in Nat \ {0} /\ Head(s) = s[1] /\ Len(r) = Len(s) - 1
      /\ \A i \in 1..Len(r) : r[i] = s[i + 1]
      /\ r \in Seq(Nat) /\ Head(s) \in Nat
  BY HeadTailProperties
<1> HIDE DEF r
<1>2. /\ 1 \in 1..Len(s) /\ \A i \in 1..Len(r) : i + 1 \in 1..Len(s) /\ 1 < i + 1
      /\ \A i, j \in 1..Len(r) : i < j => i + 1 < j + 1
  BY <1>1
<1>3. Increasing(s) => Increasing(r) /\ AllAbove(Head(s), r)
  BY <1>1, <1>2 DEF Increasing, AllAbove
<1>4. Before(t, s) => Before(t, r) /\ AllBelow(t, Head(s))
  BY <1>1, <1>2 DEF Before, AllBelow
<1>5. Before(s, t) => Before(r, t) /\ AllAbove(Head(s), t)
  BY <1>1, <1>2 DEF Before, AllAbove
<1>. QED BY <1>1, <1>3, <1>4, <1>5 DEF r

\* Order and putting one list after another.
LEMMA ConcatOrder ==
  ASSUME NEW s \in Seq(Nat), NEW t \in Seq(Nat), NEW u
  PROVE  /\ Increasing(s) /\ Increasing(t) /\ Before(s, t) => Increasing(s \o t)
         /\ Before(s, u) /\ Before(t, u) => Before(s \o t, u)
<1> DEFINE c == s \o t
<1>1. /\ Len(s) \in Nat /\ Len(t) \in Nat /\ Len(c) = Len(s) + Len(t)
      /\ \A i \in 1..(Len(s) + Len(t)) : c[i] = IF i <= Len(s) THEN s[i] ELSE t[i - Len(s)]
  BY ConcatProperties
<1> HIDE DEF c
<1>2. \A i \in 1..Len(c) : \/ i \in 1..Len(s) /\ c[i] = s[i]
                           \/ i - Len(s) \in 1..Len(t) /\ c[i] = t[i - Len(s)] /\ ~(i <= Len(s))
  BY <1>1
<1>3. Before(s, u) /\ Before(t, u) => Before(c, u)
  BY <1>2 DEF Before
<1>4. Increasing(s) /\ Increasing(t) /\ Before(s, t) => Increasing(c)
  <2> SUFFICES ASSUME Increasing(s), Increasing(t), Before(s, t),
                      NEW i \in 1..Len(c), NEW j \in 1..Len(c), i < j
               PROVE  c[i] < c[j]
    BY DEF Increasing
  <2>1. CASE j \in 1..Len(s)
    <3>1. i \in 1..Len(s) /\ i <= Len(s) /\ j <= Len(s)
      BY <1>1, <2>1
    <3>. QED BY <1>2, <2>1, <3>1 DEF Increasing
  <2>2. CASE j - Len(s) \in 1..Len(t) /\ c[j] = t[j - Len(s)] /\ i \in 1..Len(s) /\ c[i] = s[i]
    BY <2>2 DEF Before
  <2>3. CASE /\ j - Len(s) \in 1..Len(t) /\ c[j] = t[j - Len(s)]
             /\ i - Len(s) \in 1..Len(t) /\ c[i] = t[i - Len(s)]
    <3>1. i - Len(s) < j - Len(s)
      BY <1>1
    <3>. QED BY <2>3, <3>1 DEF Increasing
  <2>. QED BY <1>2, <2>1, <2>2, <2>3
<1>. QED BY <1>3, <1>4 DEF c

\* Order and cutting a list short.
LEMMA PrefixOrder ==
  ASSUME NEW s \in Seq(Nat), NEW t \in Seq(Nat), NEW k \in 0..Len(s)
  PROVE  /\ SubSeq(s, 1, k) \in Seq(Nat)
         /\ Increasing(s) => Increasing(SubSeq(s, 1, k))
         /\ Before(t, s) => Before(t, SubSeq(s, 1, k))
         /\ Before(s, t) => Before(SubSeq(s, 1, k), t)
<1> DEFINE r == SubSeq(s, 1, k)
<1>1. Len(s) \in Nat /\ 1 \in 1..(Len(s) + 1) /\ k \in (1-1)..Len(s)
  BY LenProperties
<1>2. r \in Seq(Nat) /\ Len(r) = k - 1 + 1 /\ \A i \in 1..(k - 1 + 1) : r[i] = s[1 + i - 1]
  <2>1. /\ r \in Seq(Nat)
        /\ Len(r) = IF 1 <= k THEN k - 1 + 1 ELSE 0
        /\ \A i \in 1..(k - 1 + 1) : r[i] = s[1 + i - 1]
    BY <1>1, SubSeqProperties
  <2>. QED BY <1>1, <2>1
<1> HIDE DEF r
<1>3. \A i \in 1..Len(r) : i \in 1..Len(s) /\ r[i] = s[i]
  BY <1>1, <1>2
<1>. QED BY <1>2, <1>3 DEF r, Increasing, Before

\* The rows in every place are in order, and a place nearer to the file holds earlier rows.
RowsOrdered ==
  /\ Increasing(queue) /\ Increasing(batch) /\ Before(batch, queue)
  /\ \A p \in Path :
       /\ Increasing(buffer[p]) /\ Before(buffer[p], batch) /\ Before(buffer[p], queue)
       /\ Increasing(files[p]) /\ Before(files[p], buffer[p])
       /\ Before(files[p], batch) /\ Before(files[p], queue)

\* A row is only ever put into the handle and the file of its own path.
OfPath(s, p) == \A i \in 1..Len(s) : submitted[s[i]] = p
RowsRouted == \A p \in Path : OfPath(buffer[p], p) /\ OfPath(files[p], p)

OrderInvariant == RowsOrdered /\ RowsRouted

\* Rows are numbers, so all lists of rows can be compared.
LEMMA RowsAreNumbers ==
  ASSUME TypeOK
  PROVE  /\ Len(submitted) \in Nat /\ Seq(Row) \subseteq Seq(Nat)
         /\ queue \in Seq(Nat) /\ batch \in Seq(Nat)
         /\ \A p \in Path : buffer[p] \in Seq(Nat) /\ files[p] \in Seq(Nat)
         /\ \A s \in Seq(Row) : \A i \in 1..Len(s) : s[i] \in Row
<1>1. Len(submitted) \in Nat /\ Row \subseteq Nat
  BY DEF TypeOK, Row
<1>2. \A s \in Seq(Row) : Len(s) \in Nat /\ s \in [1..Len(s) -> Row]
  BY LenProperties
<1>3. ASSUME NEW s \in Seq(Row) PROVE s \in Seq(Nat)
  <2>1. s \in [1..Len(s) -> Nat] /\ Len(s) \in Nat
    BY <1>1, <1>2
  <2>. QED BY <2>1, SeqDef
<1>. QED BY <1>1, <1>2, <1>3 DEF TypeOK

\* The rows are in order at first,
LEMMA InitOrder == Init => OrderInvariant
BY DEF Init, NoRows, OrderInvariant, RowsOrdered, RowsRouted, OfPath, Increasing, Before

\* after a call of enqueue_jsonl,
LEMMA EnqueueOrder ==
  ASSUME TypeOK, OrderInvariant, NEW p \in Path, EnqueueJsonl(p)
  PROVE  OrderInvariant'
<1> DEFINE n == Len(submitted) + 1
<1>1. /\ submitted' = Append(submitted, p) /\ UNCHANGED <<batch, buffer, files>>
      /\ queue' \in {queue, Append(queue, n)}
  BY DEF EnqueueJsonl
<1>2. /\ Len(submitted) \in Nat /\ n \in Nat /\ queue \in Seq(Nat) /\ batch \in Seq(Nat)
      /\ \A q \in Path : buffer[q] \in Seq(Nat) /\ files[q] \in Seq(Nat)
  BY RowsAreNumbers
<1>3. \A s \in Seq(Row) : AllBelow(s, n)
  BY <1>2, RowsAreNumbers DEF AllBelow, Row
<1>4. /\ AllBelow(queue, n) /\ AllBelow(batch, n)
      /\ \A q \in Path : AllBelow(buffer[q], n) /\ AllBelow(files[q], n)
  BY <1>3 DEF TypeOK
<1>5. RowsOrdered'
  <2>1. CASE queue' = queue
    BY <1>1, <2>1 DEF OrderInvariant, RowsOrdered
  <2>2. CASE queue' = Append(queue, n)
    <3> HIDE DEF n
    <3>1. Increasing(queue') /\ Before(batch, queue')
      BY <1>2, <1>4, <2>2, AppendOrder DEF OrderInvariant, RowsOrdered
    <3>2. \A q \in Path : Before(buffer[q], queue') /\ Before(files[q], queue')
      BY <1>2, <1>4, <2>2, AppendOrder DEF OrderInvariant, RowsOrdered
    <3>. QED BY <1>1, <3>1, <3>2 DEF OrderInvariant, RowsOrdered
  <2>. QED BY <1>1, <2>1, <2>2
<1>6. \A i \in Row : submitted'[i] = submitted[i]
  BY <1>1, AppendProperties DEF TypeOK, Row
<1>7. RowsRouted'
  <2> SUFFICES ASSUME NEW q \in Path PROVE (OfPath(buffer[q], q) /\ OfPath(files[q], q))'
    BY DEF RowsRouted
  <2>1. /\ \A i \in 1..Len(buffer[q]) : buffer[q][i] \in Row
        /\ \A i \in 1..Len(files[q]) : files[q][i] \in Row
    BY RowsAreNumbers DEF TypeOK
  <2>. QED BY <1>1, <1>6, <2>1 DEF OrderInvariant, RowsRouted, OfPath
<1>. QED BY <1>5, <1>7 DEF OrderInvariant

\* Rows move from the queue to the batch.
LEMMA TakeOrder ==
  ASSUME WriterInvariant, OrderInvariant, GetFirst \/ FillBatch
  PROVE  OrderInvariant'
<1>1. /\ UNCHANGED <<submitted, buffer, files>>
      /\ \/ UNCHANGED <<queue, batch>>
         \/ queue # <<>> /\ queue' = Tail(queue) /\ batch' = Append(batch, Head(queue))
  <2>1. CASE GetFirst
    <3>1. batch = <<>>
      BY <2>1 DEF GetFirst, WriterInvariant, NothingMissing
    <3>2. batch' = Append(batch, Head(queue))
      BY <2>1, <3>1 DEF GetFirst
    <3>. QED BY <2>1, <3>2 DEF GetFirst, producerVars
  <2>2. CASE FillBatch
    BY <2>2 DEF FillBatch, Extended, producerVars
  <2>. QED BY <2>1, <2>2
<1>2. RowsRouted'
  BY <1>1 DEF OrderInvariant, RowsRouted, OfPath
<1>3. CASE UNCHANGED <<queue, batch>>
  BY <1>1, <1>2, <1>3 DEF OrderInvariant, RowsOrdered
<1>4. CASE queue # <<>> /\ queue' = Tail(queue) /\ batch' = Append(batch, Head(queue))
  <2>1. /\ queue \in Seq(Nat) /\ batch \in Seq(Nat)
        /\ \A p \in Path : buffer[p] \in Seq(Nat) /\ files[p] \in Seq(Nat)
    BY RowsAreNumbers DEF WriterInvariant
  <2> DEFINE h == Head(queue)  r == Tail(queue)
  <2>2. /\ r \in Seq(Nat) /\ h \in Nat /\ Increasing(r) /\ AllAbove(h, r)
        /\ Before(batch, r) /\ AllBelow(batch, h)
    BY <1>4, <2>1, TailOrder DEF OrderInvariant, RowsOrdered
  <2>3. ASSUME NEW p \in Path
        PROVE  /\ Before(buffer[p], r) /\ AllBelow(buffer[p], h)
               /\ Before(files[p], r) /\ AllBelow(files[p], h)
    BY <1>4, <2>1, TailOrder DEF OrderInvariant, RowsOrdered
  <2> HIDE DEF h, r
  <2>4. queue' = r /\ batch' = Append(batch, h)
    BY <1>4 DEF h, r
  <2>5. Increasing(batch') /\ Before(batch', r)
    BY <2>1, <2>2, <2>4, AppendOrder DEF OrderInvariant, RowsOrdered
  <2>6. \A p \in Path : Before(buffer[p], batch') /\ Before(files[p], batch')
    BY <2>1, <2>2, <2>3, <2>4, AppendOrder DEF OrderInvariant, RowsOrdered
  <2>7. RowsOrdered'
    BY <1>1, <2>2, <2>3, <2>4, <2>5, <2>6 DEF OrderInvariant, RowsOrdered
  <2>. QED BY <1>2, <2>7 DEF OrderInvariant
<1>. QED BY <1>1, <1>3, <1>4

\* The first row of the batch goes to the handle of its path.
LEMMA WriteRowOrder ==
  ASSUME WriterInvariant, OrderInvariant, WriteRow
  PROVE  OrderInvariant'
<1> DEFINE h == Head(batch)  q == submitted[h]  r == Tail(batch)
<1>1. /\ batch # <<>> /\ batch' = r /\ buffer' = [buffer EXCEPT ![q] = Append(@, h)]
      /\ UNCHANGED <<submitted, queue, files>>
  BY DEF WriteRow, producerVars
<1>2. /\ queue \in Seq(Nat) /\ batch \in Seq(Nat) /\ buffer \in [Path -> Seq(Row)]
      /\ \A p \in Path : buffer[p] \in Seq(Nat) /\ files[p] \in Seq(Nat)
  BY RowsAreNumbers DEF WriterInvariant, TypeOK
<1>3. /\ r \in Seq(Nat) /\ h \in Nat /\ Increasing(r) /\ AllAbove(h, r)
      /\ Before(r, queue) /\ AllAbove(h, queue)
  BY <1>1, <1>2, TailOrder DEF OrderInvariant, RowsOrdered
<1>4. ASSUME NEW p \in Path
      PROVE  /\ Before(buffer[p], r) /\ AllBelow(buffer[p], h)
             /\ Before(files[p], r) /\ AllBelow(files[p], h)
  BY <1>1, <1>2, TailOrder DEF OrderInvariant, RowsOrdered
<1>5. \A p \in Path : buffer'[p] = IF p = q THEN Append(buffer[p], h) ELSE buffer[p]
  <2> HIDE DEF h, q
  <2>. QED BY <1>1, <1>2
<1>6. ASSUME NEW p \in Path
      PROVE  /\ Increasing(buffer'[p]) /\ Before(buffer'[p], r) /\ Before(buffer'[p], queue)
             /\ Before(files[p], buffer'[p])
  <2> HIDE DEF h, q, r
  <2>1. CASE p # q
    BY <1>4, <1>5, <2>1 DEF OrderInvariant, RowsOrdered
  <2>2. CASE p = q
    <3>1. buffer'[p] = Append(buffer[p], h)
      BY <1>5, <2>2
    <3>. QED BY <1>2, <1>3, <1>4, <3>1, AppendOrder DEF OrderInvariant, RowsOrdered
  <2>. QED BY <2>1, <2>2
<1>7. RowsOrdered'
  <2> HIDE DEF h, q, r
  <2>. QED BY <1>1, <1>3, <1>4, <1>6 DEF OrderInvariant, RowsOrdered
<1>8. ASSUME NEW p \in Path PROVE OfPath(buffer[p], p)'
  <2>1. CASE p # q
    <3>1. buffer'[p] = buffer[p]
      BY <1>5, <2>1
    <3>. QED BY <1>1, <3>1 DEF OrderInvariant, RowsRouted, OfPath
  <2>2. CASE p = q
    <3>1. buffer'[p] = Append(buffer[p], h) /\ submitted' = submitted /\ submitted[h] = p
      BY <1>1, <1>5, <2>2
    <3> HIDE DEF h, q, r
    <3>2. /\ Len(buffer'[p]) = Len(buffer[p]) + 1 /\ Len(buffer[p]) \in Nat
          /\ \A i \in 1..Len(buffer[p]) : buffer'[p][i] = buffer[p][i]
          /\ buffer'[p][Len(buffer[p]) + 1] = h
      BY <1>2, <1>3, <3>1, AppendProperties
    <3>3. \A i \in 1..Len(buffer'[p]) : i \in 1..Len(buffer[p]) \/ i = Len(buffer[p]) + 1
      BY <3>2
    <3>. QED BY <3>1, <3>2, <3>3 DEF OrderInvariant, RowsRouted, OfPath
  <2>. QED BY <2>1, <2>2
<1>9. RowsRouted'
  BY <1>1, <1>8 DEF OrderInvariant, RowsRouted, OfPath
<1>. QED BY <1>7, <1>9 DEF OrderInvariant

\* What the handles hold, or a part of it, reaches the files.
LEMMA ReachOrder ==
  ASSUME WriterInvariant, OrderInvariant, NEW kept, \A p \in Path : kept[p] \in 0..Len(buffer[p]),
         files' = [p \in Path |-> files[p] \o SubSeq(buffer[p], 1, kept[p])],
         buffer' = NoRows, batch' = <<>>, UNCHANGED <<submitted, queue>>
  PROVE  OrderInvariant'
<1>1. /\ queue \in Seq(Nat) /\ batch \in Seq(Nat)
      /\ \A p \in Path : buffer[p] \in Seq(Nat) /\ files[p] \in Seq(Nat)
  BY RowsAreNumbers DEF WriterInvariant
<1>2. ASSUME NEW p \in Path
      PROVE  Increasing(files'[p]) /\ Before(files'[p], queue) /\ OfPath(files[p], p)'
  <2> DEFINE r == SubSeq(buffer[p], 1, kept[p])
  <2>1. /\ r \in Seq(Nat) /\ Increasing(r) /\ Before(files[p], r) /\ Before(r, queue)
    BY <1>1, PrefixOrder DEF OrderInvariant, RowsOrdered
  <2>2. \A i \in 1..Len(r) : submitted[r[i]] = p
    <3>1. kept[p] \in 0..Len(buffer[p]) /\ Len(buffer[p]) \in Nat /\ buffer[p] \in Seq(Nat)
      BY <1>1, LenProperties
    <3>2. 1 \in 1..(Len(buffer[p]) + 1) /\ kept[p] \in (1-1)..Len(buffer[p])
      BY <3>1
    <3>3. /\ Len(r) = IF 1 <= kept[p] THEN kept[p] - 1 + 1 ELSE 0
          /\ \A i \in 1..(kept[p] - 1 + 1) : r[i] = buffer[p][1 + i - 1]
      BY <3>1, <3>2, SubSeqProperties
    <3> HIDE DEF r
    <3>4. \A i \in 1..Len(r) : i \in 1..Len(buffer[p]) /\ r[i] = buffer[p][i]
      BY <3>1, <3>3
    <3>. QED BY <3>4 DEF OrderInvariant, RowsRouted, OfPath
  <2> HIDE DEF r
  <2>3. files'[p] = files[p] \o r
    BY DEF r
  <2>4. Increasing(files'[p]) /\ Before(files'[p], queue)
    BY <1>1, <2>1, <2>3, ConcatOrder DEF OrderInvariant, RowsOrdered
  <2>5. OfPath(files[p], p)'
    <3>1. /\ Len(files[p]) \in Nat /\ Len(r) \in Nat /\ Len(files'[p]) = Len(files[p]) + Len(r)
          /\ \A i \in 1..(Len(files[p]) + Len(r)) :
               files'[p][i] = IF i <= Len(files[p]) THEN files[p][i] ELSE r[i - Len(files[p])]
      <4>1. files[p] \in Seq(Nat) /\ r \in Seq(Nat)
        BY <1>1, <2>1
      <4> DEFINE c == files[p] \o r
      <4>2. /\ Len(files[p]) \in Nat /\ Len(r) \in Nat /\ Len(c) = Len(files[p]) + Len(r)
            /\ \A i \in 1..(Len(files[p]) + Len(r)) :
                 c[i] = IF i <= Len(files[p]) THEN files[p][i] ELSE r[i - Len(files[p])]
        BY <4>1, ConcatProperties
      <4>3. files'[p] = c
        BY <2>3
      <4> HIDE DEF c
      <4>. QED BY <4>2, <4>3
    <3>3. \A i \in 1..Len(files[p]) : submitted[files[p][i]] = p
      BY DEF OrderInvariant, RowsRouted, OfPath
    <3>4. ASSUME NEW i \in 1..Len(files'[p])
          PROVE  submitted[files'[p][i]] = p
      <4>1. CASE i <= Len(files[p])
        <5>1. i \in 1..Len(files[p]) /\ files'[p][i] = files[p][i]
          BY <3>1, <4>1
        <5>. QED BY <5>1, <3>3
      <4>2. CASE i > Len(files[p])
        <5>1. i - Len(files[p]) \in 1..Len(r) /\ files'[p][i] = r[i - Len(files[p])]
          BY <3>1, <4>2
        <5>. QED BY <5>1, <2>2
      <4>. QED BY <3>1, <4>1, <4>2
    <3>5. submitted' = submitted
      OBVIOUS
    <3>. QED BY <3>4, <3>5 DEF OfPath
  <2>. QED BY <2>4, <2>5
<1>3. \A p \in Path : buffer'[p] = <<>>
  BY DEF NoRows
<1>4. \A t : Increasing(<<>>) /\ Before(<<>>, t) /\ Before(t, <<>>) /\ Len(<<>>) = 0
  BY DEF Increasing, Before
<1>5. RowsOrdered'
  BY <1>2, <1>3, <1>4 DEF OrderInvariant, RowsOrdered
<1>6. RowsRouted'
  <2> SUFFICES ASSUME NEW p \in Path PROVE OfPath(buffer[p], p)' /\ OfPath(files[p], p)'
    BY DEF RowsRouted
  <2>1. Len(buffer'[p]) = 0
    BY <1>3, <1>4
  <2>2. OfPath(buffer[p], p)'
    BY <2>1 DEF OfPath
  <2>. QED BY <1>2, <2>2
<1>. QED BY <1>5, <1>6 DEF OrderInvariant

\* after a batch is flushed,
LEMMA FlushOrder ==
  ASSUME WriterInvariant, OrderInvariant, FlushBatch
  PROVE  OrderInvariant'
<1> DEFINE kept == [p \in Path |-> Len(buffer[p])]
<1>1. \A p \in Path : buffer[p] \in Seq(Nat) /\ kept[p] \in 0..Len(buffer[p])
  <2> TAKE p \in Path
  <2>1. buffer[p] \in Seq(Nat)
    BY RowsAreNumbers DEF WriterInvariant
  <2>2. Len(buffer[p]) \in Nat
    BY <2>1, LenProperties
  <2>3. kept[p] = Len(buffer[p])
    OBVIOUS
  <2>. QED BY <2>1, <2>2, <2>3
<1>2. \A p \in Path : SubSeq(buffer[p], 1, kept[p]) = buffer[p]
  <2> SUFFICES ASSUME NEW p \in Path PROVE SubSeq(buffer[p], 1, Len(buffer[p])) = buffer[p]
    OBVIOUS
  <2>. QED BY <1>1
<1>3. files' = [p \in Path |-> files[p] \o SubSeq(buffer[p], 1, kept[p])]
  <2> HIDE DEF kept
  <2>. QED BY <1>2 DEF FlushBatch
<1>4. buffer' = NoRows /\ batch' = <<>> /\ UNCHANGED <<submitted, queue>>
  BY DEF FlushBatch, producerVars
<1> HIDE DEF kept
<1>. QED BY <1>1, <1>3, <1>4, ReachOrder

\* and after a batch fails.
LEMMA FailOrder ==
  ASSUME WriterInvariant, OrderInvariant, NEW kept \in [Path -> 0..BatchSize], BatchFails(kept)
  PROVE  OrderInvariant'
<1>1. \A p \in Path : kept[p] \in 0..Len(buffer[p])
  <2> TAKE p \in Path
  <2>1. buffer[p] \in Seq(Nat) /\ Len(buffer[p]) \in Nat
    BY RowsAreNumbers, LenProperties DEF WriterInvariant
  <2>2. kept[p] \in Nat /\ kept[p] <= Len(buffer[p])
    BY WriterAssumption DEF BatchFails
  <2>. QED BY <2>1, <2>2
<1>2. /\ files' = [p \in Path |-> files[p] \o SubSeq(buffer[p], 1, kept[p])]
      /\ buffer' = NoRows /\ batch' = <<>> /\ UNCHANGED <<submitted, queue>>
  BY DEF BatchFails, producerVars
<1>. QED BY <1>1, <1>2, ReachOrder

\* for any interleaving of producer and thread.
LEMMA OrderHolds == Spec => []OrderInvariant
<1>1. Init => OrderInvariant
  BY InitOrder
<1>2. WriterInvariant /\ OrderInvariant /\ [Next]_vars => OrderInvariant'
  <2> SUFFICES ASSUME WriterInvariant, OrderInvariant, [Next]_vars PROVE OrderInvariant'
    OBVIOUS
  <2>1. ASSUME NEW p \in Path, EnqueueJsonl(p) PROVE OrderInvariant'
    BY <2>1, EnqueueOrder DEF WriterInvariant
  <2>2. CASE Close \/ JoinReturns \/ CheckStop \/ GetTimesOut \/ UNCHANGED vars
    <3>1. UNCHANGED <<submitted, queue, batch, buffer, files>>
      BY <2>2 DEF Close, JoinReturns, CheckStop, GetTimesOut, producerVars, vars
    <3>. QED BY <3>1 DEF OrderInvariant, RowsOrdered, RowsRouted, OfPath
  <2>3. CASE GetFirst \/ FillBatch
    BY <2>3, TakeOrder
  <2>4. CASE WriteRow
    BY <2>4, WriteRowOrder
  <2>5. CASE FlushBatch
    BY <2>5, FlushOrder
  <2>6. ASSUME NEW kept \in [Path -> 0..BatchSize], BatchFails(kept) PROVE OrderInvariant'
    BY <2>6, FailOrder
  <2>. QED BY <2>1, <2>2, <2>3, <2>4, <2>5, <2>6 DEF Next, Thread, Finished
<1>. QED BY <1>1, <1>2, WriterCorrect, PTL DEF Spec

\* A file holds rows of its own, each once and in the order of their enqueue_jsonl, for any
\* interleaving of producer and thread and any batches of _flush_batch that fail.
THEOREM FilesAreInOrder == Spec => []FilesInOrder
<1>1. OrderInvariant => FilesInOrder
  BY DEF OrderInvariant, RowsOrdered, RowsRouted, OfPath, Increasing, FilesInOrder
<1>. QED BY <1>1, OrderHolds, PTL

-----------------------------------------------------------------------------
(* The refinement of RowLog.                                                        *)

\* The writer starts as RowLog does.
LEMMA RowsStart == Init => Rows!LogInit
BY DEF Init, NoRows, Rows!LogInit

\* enqueue_jsonl is a Submit, also of a row that is dropped.
LEMMA EnqueueSubmits ==
  ASSUME TypeOK, NEW p \in Path, EnqueueJsonl(p)
  PROVE  Rows!Submit
<1>1. submitted \in Seq(Path) /\ submitted' = Append(submitted, p) /\ UNCHANGED files
  BY DEF TypeOK, EnqueueJsonl
<1>2. /\ Len(submitted') = Len(submitted) + 1 /\ Len(submitted) \in Nat
      /\ \A i \in 1..Len(submitted) : submitted'[i] = submitted[i]
  BY <1>1, AppendProperties
<1>. QED BY <1>1, <1>2 DEF Rows!Submit, Rows!GoesOn

\* What reaches the files, of a batch that is flushed or that fails, is a Save.
LEMMA ReachSaves ==
  ASSUME WriterInvariant, WriterInvariant', OrderInvariant', NEW part,
         \A p \in Path : part[p] \in Seq(Nat),
         files' = [p \in Path |-> files[p] \o part[p]], UNCHANGED submitted
  PROVE  Rows!Save
<1> SUFFICES ASSUME NEW p \in Path
             PROVE  /\ Rows!GoesOn(files[p], files'[p])
                    /\ \A j \in Len(files[p])+1 .. Len(files'[p]) :
                         Rows!Follows(files'[p], j, p)
  BY DEF Rows!Save
<1>1. files[p] \in Seq(Nat)
  BY RowsAreNumbers DEF WriterInvariant
<1>2. /\ Len(files[p]) \in Nat /\ Len(files'[p]) \in Nat
      /\ Rows!GoesOn(files[p], files'[p])
  <2> DEFINE s == files[p]  r == part[p]  c == s \o r
  <2>1. s \in Seq(Nat) /\ r \in Seq(Nat) /\ files'[p] = c
    BY <1>1
  <2> HIDE DEF s, r
  <2>2. /\ Len(s) \in Nat /\ Len(r) \in Nat /\ Len(c) = Len(s) + Len(r)
        /\ \A i \in 1..(Len(s) + Len(r)) : c[i] = IF i <= Len(s) THEN s[i] ELSE r[i - Len(s)]
    BY <2>1, ConcatProperties
  <2> HIDE DEF c
  <2>3. /\ Len(c) \in Nat /\ Len(s) <= Len(c)
        /\ \A i \in 1..Len(s) : i \in 1..(Len(s) + Len(r)) /\ i <= Len(s)
    BY <2>2
  <2>4. \A i \in 1..Len(s) : c[i] = s[i]
    BY <2>2, <2>3
  <2>5. Rows!GoesOn(s, c)
    BY <2>3, <2>4 DEF Rows!GoesOn
  <2>. QED BY <2>1, <2>2, <2>3, <2>5 DEF s
<1>3. \A j \in 1..Len(files'[p]) : files'[p][j] \in 1..Len(submitted)
  <2>1. files'[p] \in Seq(Row')
    BY DEF WriterInvariant, TypeOK
  <2>2. \A j \in 1..Len(files'[p]) : files'[p][j] \in Row'
    BY <2>1, LenProperties
  <2>. QED BY <2>2 DEF Row
<1>4. /\ \A j \in 1..Len(files'[p]) : submitted[files'[p][j]] = p
      /\ \A i, j \in 1..Len(files'[p]) : i < j => files'[p][i] < files'[p][j]
  BY DEF OrderInvariant, RowsOrdered, RowsRouted, OfPath, Increasing
<1>5. ASSUME NEW j \in Len(files[p])+1 .. Len(files'[p])
      PROVE  Rows!Follows(files'[p], j, p)
  <2>1. /\ j \in 1..Len(files'[p])
        /\ \A i \in 1..j-1 : i \in 1..Len(files'[p]) /\ i < j
    <3> DEFINE m == Len(files[p])  k == Len(files'[p])
    <3>1. m \in Nat /\ k \in Nat /\ j \in m+1 .. k
      BY <1>2
    <3> HIDE DEF m, k
    <3>2. j \in 1..k /\ \A i \in 1..j-1 : i \in 1..k /\ i < j
      BY <3>1
    <3>. QED BY <3>2 DEF k
  <2>. QED BY <1>3, <1>4, <2>1 DEF Rows!Follows
<1>. QED BY <1>2, <1>5

\* Every step of the writer is a step of RowLog or leaves rows and files alone.
LEMMA RowsStep ==
  ASSUME WriterInvariant, WriterInvariant', OrderInvariant', [Next]_vars
  PROVE  [Rows!LogNext]_Rows!logVars
<1>1. ASSUME NEW p \in Path, EnqueueJsonl(p) PROVE Rows!LogNext
  BY <1>1, EnqueueSubmits DEF WriterInvariant, Rows!LogNext
<1>2. CASE \/ Close \/ JoinReturns \/ CheckStop \/ GetFirst \/ GetTimesOut
           \/ FillBatch \/ WriteRow \/ Finished \/ UNCHANGED vars
  <2>1. UNCHANGED <<submitted, files>>
    BY <1>2 DEF Close, JoinReturns, CheckStop, GetFirst, GetTimesOut, FillBatch, WriteRow,
                Finished, producerVars, vars
  <2>. QED BY <2>1 DEF Rows!logVars
<1>3. CASE FlushBatch
  <2>1. \A p \in Path : buffer[p] \in Seq(Nat)
    BY RowsAreNumbers DEF WriterInvariant
  <2>2. files' = [p \in Path |-> files[p] \o buffer[p]] /\ UNCHANGED submitted
    BY <1>3 DEF FlushBatch, producerVars
  <2>. QED BY <2>1, <2>2, ReachSaves DEF Rows!LogNext
<1>4. ASSUME NEW kept \in [Path -> 0..BatchSize], BatchFails(kept) PROVE Rows!LogNext
  <2> DEFINE part == [p \in Path |-> SubSeq(buffer[p], 1, kept[p])]
  <2>1. \A p \in Path : part[p] \in Seq(Nat)
    <3> TAKE p \in Path
    <3>1. buffer[p] \in Seq(Nat) /\ Len(buffer[p]) \in Nat
      BY RowsAreNumbers, LenProperties DEF WriterInvariant
    <3>2. kept[p] \in Nat /\ kept[p] <= Len(buffer[p])
      BY <1>4, WriterAssumption DEF BatchFails
    <3>. QED BY <3>1, <3>2
  <2>2. files' = [p \in Path |-> files[p] \o part[p]] /\ UNCHANGED submitted
    BY <1>4 DEF BatchFails, producerVars
  <2> HIDE DEF part
  <2>. QED BY <2>1, <2>2, ReachSaves DEF Rows!LogNext
<1>. QED BY <1>1, <1>2, <1>3, <1>4 DEF Next, Thread

\* The writer is a RowLog: whatever the thread's batches do and whenever close gives up, a
\* file that _flush_batch has written only grows, by later rows of its own.
THEOREM WriterRefinesRowLog == Spec => ImplementsRowLog
<1>. QED BY RowsStart, RowsStep, WriterCorrect, OrderHolds, PTL
         DEF Spec, ImplementsRowLog, Rows!LogSpec
=============================================================================
