---------------------------- MODULE MCBatchWriter ----------------------------
(* An instance of BatchWriter: two files, so that a batch that fails can have *)
(* written one file and not the other.                                        *)
EXTENDS BatchWriter
=============================================================================
