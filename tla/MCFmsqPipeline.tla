--------------------------- MODULE MCFmsqPipeline ---------------------------
(* Bounded instances of FmsqPipeline. *)
EXTENDS FmsqPipeline
=============================================================================
