----------------------------- MODULE GapMonitor -----------------------------
(***************************************************************************)
(* The tasks of main.run_gap_monitor and the AsyncJsonlEventLogger of      *)
(* logging/event_logger.py: two ingest tasks and the main loop hand gap    *)
(* observations to the logger, whose worker task appends them to a file in *)
(* a thread; on shutdown the main task cancels the ingest tasks, writes    *)
(* the final summary and closes the logger.                                *)
(*                                                                         *)
(* Observation n is the n-th one logged.  The queue has no limit, so       *)
(* logging never suspends a task; the tasks interleave at their awaits.    *)
(***************************************************************************)
EXTENDS Naturals, Sequences

CONSTANTS
  Task,        \* the ingest tasks: one per websocket client
  MaxEvents    \* bound: observations

ASSUME MonitorAssumption == MaxEvents \in Nat

VARIABLES
  main,       \* where the main task is
  task,       \* of each ingest task, whether it runs
  awaited,    \* ingest tasks whose end the shutdown has seen
  written,    \* gap_events_written: observations counted
  queue,      \* the logger's queue: observations, 0 for the None of close
  worker,     \* where the logger's worker is
  row,        \* the observation it writes
  file,       \* the rows of the file
  summary     \* the final runtime summary is written

monitorVars == <<main, task, awaited, written, queue, worker, row, file, summary>>

CloseMark == 0

MonitorInit ==
  /\ main = "loop" /\ task = [t \in Task |-> "runs"] /\ awaited = {}
  /\ written = 0 /\ queue = <<>> /\ worker = "get" /\ row = 0 /\ file = <<>>
  /\ summary = FALSE

-----------------------------------------------------------------------------

\* logger.log and record_gap_event_written: an observation is counted when it is queued.
Log(n) ==
  /\ written + n <= MaxEvents
  /\ written' = written + n
  /\ queue' = queue \o [i \in 1..n |-> written + i]

\* _ingest_gap_binance, _ingest_gap_polymarket: an event of the stream closes some gaps.
Ingest(t) ==
  /\ main = "loop" /\ task[t] = "runs"
  /\ \E n \in 1..MaxEvents : Log(n)
  /\ UNCHANGED <<main, task, awaited, worker, row, file, summary>>

\* The handler or the stream raises: the task ends, and nobody looks at it.
IngestFails(t) ==
  /\ main = "loop" /\ task[t] = "runs"
  /\ task' = [task EXCEPT ![t] = "failed"]
  /\ UNCHANGED <<main, awaited, written, queue, worker, row, file, summary>>

\* _apply_market_universe_refresh: gaps of the markets that left are observed.
Refresh ==
  /\ main = "loop"
  /\ \E n \in 1..MaxEvents : Log(n)
  /\ UNCHANGED <<main, task, awaited, worker, row, file, summary>>

-----------------------------------------------------------------------------
(* The worker: AsyncJsonlEventLogger._run.                                          *)

\* A mutant of Taken: the worker takes what came last.
TakenLast == queue[Len(queue)]
Taken == Head(queue)

WorkerGets ==
  /\ worker = "get" /\ queue # <<>>
  /\ row' = Taken
  /\ queue' = Tail(queue)
  /\ worker' = IF row' = CloseMark THEN "done" ELSE "write"
  /\ UNCHANGED <<main, task, awaited, written, file, summary>>

WorkerWrites ==
  /\ worker = "write"
  /\ file' = Append(file, row) /\ row' = 0
  /\ worker' = "get"
  /\ UNCHANGED <<main, task, awaited, written, queue, summary>>

\* _append_bytes raises: nothing handles it, and the worker ends.
WorkerFails ==
  /\ worker = "write"
  /\ worker' = "failed" /\ row' = 0
  /\ UNCHANGED <<main, task, awaited, written, queue, file, summary>>

-----------------------------------------------------------------------------
(* Shutdown: the finally of run_gap_monitor.                                        *)

\* The main task is cancelled (Ctrl-C), or its loop raises: a status file cannot be written.
Stop ==
  /\ main = "loop"
  /\ \E how \in {"stopping", "raising"} : main' = how
  /\ task' = [t \in Task |-> IF task[t] = "runs" THEN "cancelled" ELSE task[t]]
  /\ UNCHANGED <<awaited, written, queue, worker, row, file, summary>>

InFinally == main \in {"stopping", "raising"}

\* await task: the error of a failed one comes up here and ends the shutdown; after it
\* asyncio.run cancels the worker, whose thread may still finish its row.
Awaits(t) ==
  /\ InFinally /\ t \notin awaited
  /\ IF task[t] = "cancelled"
     THEN awaited' = awaited \cup {t} /\ UNCHANGED main
     ELSE main' = "raised" /\ UNCHANGED awaited
  /\ UNCHANGED <<task, written, queue, worker, row, file, summary>>

\* The final summary, then close: the end mark goes into the queue behind everything else.
FinalSummary ==
  /\ InFinally /\ awaited = Task /\ ~summary
  /\ \/ summary' = TRUE /\ UNCHANGED main
     \/ main' = "raised" /\ UNCHANGED summary
  /\ UNCHANGED <<task, awaited, written, queue, worker, row, file>>

\* Mutants of CloseQueued: no mark; or a mark that goes before what is queued.
QueueAsItIs == queue
MarkInFront == <<CloseMark>> \o queue
CloseQueued == Append(queue, CloseMark)

CloseLogger ==
  /\ InFinally /\ summary
  /\ queue' = CloseQueued
  /\ main' = IF main = "raising" THEN "closing_raising" ELSE "closing"
  /\ UNCHANGED <<task, awaited, written, worker, row, file, summary>>

\* await self._worker: returns when the worker is done, raises what ended it.
WorkerAwaited ==
  /\ main \in {"closing", "closing_raising"} /\ worker \in {"done", "failed"}
  /\ main' = IF main = "closing" /\ worker = "done" THEN "exited" ELSE "raised"
  /\ UNCHANGED <<task, awaited, written, queue, worker, row, file, summary>>

\* asyncio.run cancels what is left.
Teardown ==
  /\ main = "raised" /\ worker = "get"
  /\ worker' = "cancelled"
  /\ UNCHANGED <<main, task, awaited, written, queue, row, file, summary>>

Worker == WorkerGets \/ WorkerWrites \/ WorkerFails

Shutdown ==
  \/ \E t \in Task : Awaits(t)
  \/ FinalSummary \/ CloseLogger \/ WorkerAwaited \/ Teardown

MonitorNext ==
  \/ \E t \in Task : Ingest(t) \/ IngestFails(t)
  \/ Refresh \/ Stop
  \/ Worker \/ Shutdown

MonitorSpec == MonitorInit /\ [][MonitorNext]_monitorVars

\* Every task that is ready runs in the end; file appends return or raise.
MonitorFairSpec == MonitorSpec /\ WF_monitorVars(Worker) /\ WF_monitorVars(Shutdown)

-----------------------------------------------------------------------------
(* Properties.                                                                      *)

\* Types; only the shutdown queues the end mark, and at most once.
MonitorTypeOK ==
  /\ main \in {"loop", "stopping", "raising", "closing", "closing_raising", "exited", "raised"}
  /\ task \in [Task -> {"runs", "failed", "cancelled"}] /\ awaited \subseteq Task
  /\ written \in 0..MaxEvents /\ queue \in Seq(0..MaxEvents)
  /\ worker \in {"get", "write", "failed", "done", "cancelled"} /\ row \in 0..MaxEvents
  /\ file \in Seq(1..MaxEvents) /\ summary \in BOOLEAN

\* The file holds the observations in the order in which they were logged, each once, and
\* none after one that is missing, however the tasks interleave and whatever fails: what
\* a failed worker left behind is a whole prefix.
FileIsPrefix == Len(file) <= written /\ \A i \in 1..Len(file) : file[i] = i

\* The logger implements RowLog for its one file without leaving a row out: every observation
\* is appended behind all that were logged before it, or it and all later ones never are.
Rows == INSTANCE RowLog WITH
  Path <- {"gap_events"},
  MaySkip <- FALSE,
  submitted <- [n \in 1..written |-> "gap_events"],
  files <- [p \in {"gap_events"} |-> file]

ImplementsRowLog == Rows!LogSpec

\* The program ends without an error only when every observation it counted as written is
\* in the file, the final summary is written and no ingest task had failed: a failure that
\* nobody noticed while the monitor ran shows at its end.
CleanExitIsComplete ==
  main = "exited" =>
    /\ Len(file) = written
    /\ summary
    /\ \A t \in Task : task[t] = "cancelled"

\* A shutdown comes to an end, also when the worker failed long before.
StopEnds == InFinally ~> (main \in {"exited", "raised"})

=============================================================================
