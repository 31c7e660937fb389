---------------------------- MODULE MCGapMonitor ----------------------------
(* An instance of GapMonitor: both ingest tasks, three observations. *)
EXTENDS GapMonitor
=============================================================================
