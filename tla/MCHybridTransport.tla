------------------------- MODULE MCHybridTransport -------------------------
(* Four events in at most three calls over a queue of two: batches fail,  *)
(* are retried and given up, callers wait for room, overlap and outlive the *)
(* close.                                                                   *)
EXTENDS HybridTransport
=============================================================================
