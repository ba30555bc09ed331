---------------------------- MODULE MCNsfCapture ----------------------------
(* Bounded instances of NsfCapture. *)
EXTENDS NsfCapture
=============================================================================
