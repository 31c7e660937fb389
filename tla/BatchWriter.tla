----------------------------- MODULE BatchWriter -----------------------------
(***************************************************************************)
(* JsonlBatchWriter of marketdata/batch_writer.py: a thread that takes     *)
(* rows from a bounded queue and appends them to JSONL files, in batches.  *)
(* One producer, the capture's event loop, enqueues rows, then closes the  *)
(* writer and reads its report; no caller enqueues after close.            *)
(*                                                                         *)
(* Row n is the n-th row submitted.  The producer alone reads the counters *)
(* and only after close, so an operation and its counting are one step.    *)
(***************************************************************************)
EXTENDS Naturals, Sequences

CONSTANTS
  Path,        \* the files
  QueueSize,   \* queue_max_size
  BatchSize,   \* batch_size
  MaxRows,     \* bound: rows the producer submits
  MaxErrors    \* bound: batches that raise

ASSUME WriterAssumption == /\ QueueSize \in Nat \ {0} /\ BatchSize \in Nat \ {0}
                           /\ MaxRows \in Nat /\ MaxErrors \in Nat

VARIABLES
  submitted,        \* the path of each row submitted so far
  producer,         \* where the producer is
  stop,             \* the _stop event
  queue,            \* the queue, of row numbers
  thread,           \* where the writer thread is
  batch,            \* the rows of the current batch not yet written to a handle
  buffer,           \* the rows written to the current batch's handles
  files,            \* the rows in each file
  dropped,          \* _dropped_records
  errors,           \* _error_count
  flush_completed   \* _shutdown_flush_completed

vars == <<submitted, producer, stop, queue, thread, batch, buffer, files, dropped, errors,
          flush_completed>>

producerVars == <<submitted, producer, stop, dropped, flush_completed>>

Row == 1..Len(submitted)

NoRows == [p \in Path |-> <<>>]

Init ==
  /\ submitted = <<>> /\ producer = "open" /\ stop = FALSE
  /\ queue = <<>> /\ thread = "check" /\ batch = <<>> /\ buffer = NoRows
  /\ files = NoRows
  /\ dropped = 0 /\ errors = 0 /\ flush_completed = FALSE

-----------------------------------------------------------------------------
(* The producer.                                                                    *)

\* enqueue_jsonl: put_nowait, and a row that finds the queue full is dropped.
EnqueueJsonl(p) ==
  /\ producer = "open"
  /\ Len(submitted) < MaxRows
  /\ submitted' = Append(submitted, p)
  /\ IF Len(queue) < QueueSize
     THEN queue' = Append(queue, Len(submitted) + 1) /\ UNCHANGED dropped
     ELSE dropped' = dropped + 1 /\ UNCHANGED queue
  /\ UNCHANGED <<producer, stop, thread, batch, buffer, files, errors, flush_completed>>

\* close sets the stop event and joins the thread ...
StopUnset == UNCHANGED stop        \* a mutant of StopSet
StopSet == stop' = TRUE

Close ==
  /\ producer = "open"
  /\ producer' = "joining"
  /\ StopSet
  /\ UNCHANGED <<submitted, queue, thread, batch, buffer, files, dropped, errors, flush_completed>>

\* A mutant of FlushCompleted: join is trusted to have waited.
QueueIsEmpty == queue = <<>>
FlushCompleted == thread = "dead" /\ queue = <<>>

\* ... until it is dead or the timeout has passed.
JoinReturns ==
  /\ producer = "joining"
  /\ producer' = "closed"
  /\ flush_completed' = FlushCompleted
  /\ UNCHANGED <<submitted, stop, queue, thread, batch, buffer, files, dropped, errors>>

-----------------------------------------------------------------------------
(* The writer thread.                                                               *)

KeepsRunning == ~stop \/ queue # <<>>

\* The condition of _run's loop.
CheckStop ==
  /\ thread = "check"
  /\ thread' = IF KeepsRunning THEN "get" ELSE "dead"
  /\ UNCHANGED <<producerVars, queue, batch, buffer, files, errors>>

\* _next_batch waits for a first row ...
GetFirst ==
  /\ thread = "get"
  /\ queue # <<>>
  /\ batch' = <<Head(queue)>> /\ queue' = Tail(queue)
  /\ thread' = "fill"
  /\ UNCHANGED <<producerVars, buffer, files, errors>>

GetTimesOut ==
  /\ thread = "get"
  /\ queue = <<>>
  /\ thread' = "check"
  /\ UNCHANGED <<producerVars, queue, batch, buffer, files, errors>>

\* ... and takes what is there besides, up to the batch size.
ExtendedInFront == <<Head(queue)>> \o batch      \* a mutant of Extended: newest row first
Extended == Append(batch, Head(queue))

BatchHasRoom == Len(batch) < BatchSize

FillBatch ==
  /\ thread = "fill"
  /\ IF BatchHasRoom /\ queue # <<>>
     THEN batch' = Extended /\ queue' = Tail(queue) /\ UNCHANGED thread
     ELSE thread' = "write" /\ UNCHANGED <<batch, queue>>
  /\ UNCHANGED <<producerVars, buffer, files, errors>>

\* _flush_batch: each row goes to the handle of its file, in turn ...
WriteRow ==
  /\ thread = "write"
  /\ batch # <<>>
  /\ LET n == Head(batch)
     IN  buffer' = [buffer EXCEPT ![submitted[n]] = Append(@, n)]
  /\ batch' = Tail(batch)
  /\ UNCHANGED <<producerVars, queue, thread, files, errors>>

\* ... then all handles are flushed and closed ...
FlushBatch ==
  /\ thread = "write"
  /\ batch = <<>>
  /\ files' = [p \in Path |-> files[p] \o buffer[p]]
  /\ buffer' = NoRows
  /\ thread' = "check"
  /\ UNCHANGED <<producerVars, queue, batch, errors>>

\* ... unless something raises: an open, a write, a flush or the serialisation of a row.
\* Of what was written a part may have reached each file; the rest of the batch is lost.
ErrorCounted == errors' = errors + 1

BatchFails(kept) ==
  /\ thread = "write"
  /\ errors < MaxErrors
  /\ \A p \in Path : kept[p] <= Len(buffer[p])
  /\ files' = [p \in Path |-> files[p] \o SubSeq(buffer[p], 1, kept[p])]
  /\ buffer' = NoRows /\ batch' = <<>>
  /\ thread' = "check"
  /\ ErrorCounted
  /\ UNCHANGED <<producerVars, queue>>

Thread == \/ CheckStop \/ GetFirst \/ GetTimesOut \/ FillBatch \/ WriteRow \/ FlushBatch
          \/ \E kept \in [Path -> 0..BatchSize] : BatchFails(kept)

Finished == producer = "closed" /\ thread = "dead" /\ UNCHANGED vars

Next == \/ \E p \in Path : EnqueueJsonl(p)
        \/ Close \/ JoinReturns
        \/ Thread
        \/ Finished

Spec == Init /\ [][Next]_vars

\* The thread is scheduled: its get returns or times out, its writes return or raise.
FairSpec == Spec /\ WF_vars(Thread)

-----------------------------------------------------------------------------
TypeOK ==
  /\ submitted \in Seq(Path) /\ Len(submitted) <= MaxRows
  /\ producer \in {"open", "joining", "closed"}
  /\ stop \in BOOLEAN /\ flush_completed \in BOOLEAN
  /\ queue \in Seq(Row) /\ Len(queue) <= QueueSize
  /\ thread \in {"check", "get", "fill", "write", "dead"}
  /\ batch \in Seq(Row) /\ Len(batch) <= BatchSize
  /\ buffer \in [Path -> Seq(Row)] /\ files \in [Path -> Seq(Row)]
  /\ dropped \in Nat /\ errors \in 0..MaxErrors

InSeq(n, s) == \E i \in 1..Len(s) : s[i] = n

\* Where a row that was not dropped and not lost to an error can be.
Held(n) == \/ InSeq(n, queue) \/ InSeq(n, batch)
           \/ InSeq(n, buffer[submitted[n]]) \/ InSeq(n, files[submitted[n]])

\* Without drops and errors every row is in its file or on its way there, and a batch is
\* only in progress while the thread lives.
NothingMissing ==
  /\ dropped = 0 /\ errors = 0 => \A n \in Row : Held(n)
  /\ thread \in {"check", "get", "dead"} => batch = <<>> /\ buffer = NoRows
  /\ thread = "fill" => buffer = NoRows
  /\ stop <=> producer # "open"
  /\ thread = "dead" => stop /\ queue = <<>>
  /\ producer = "closed" /\ flush_completed => thread = "dead"

\* writer_status "pass" (flush completed, nothing dropped, no error) means that every row
\* submitted is in its file, although close may give up on a thread that is still writing.
PassMeansWritten ==
  producer = "closed" /\ flush_completed /\ dropped = 0 /\ errors = 0
    => \A n \in Row : InSeq(n, files[submitted[n]])

\* A file holds rows of its own, each once and in the order they were submitted, also
\* across batches that fail.
FilesInOrder ==
  \A p \in Path : \A i, j \in 1..Len(files[p]) :
    /\ submitted[files[p][i]] = p
    /\ i < j => files[p][i] < files[p][j]

\* After close the thread ends: whatever batches fail, it drains the queue.
ThreadEnds == producer # "open" ~> thread = "dead"

\* The writer implements RowLog: what has reached a file stays, and whatever batches fail and
\* whenever close gives up, only later rows of that file come behind it.
Rows == INSTANCE RowLog WITH MaySkip <- TRUE

ImplementsRowLog == Rows!LogSpec

\* close leaves no queued row behind: the thread is dead only when the queue is empty.
DrainedOnExit == thread = "dead" => queue = <<>>
=============================================================================
