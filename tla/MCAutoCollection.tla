-------------------------- MODULE MCAutoCollection --------------------------
(* The Phase 5.2 collection on a plan of two sessions. *)
EXTENDS AutoCollection
=============================================================================
