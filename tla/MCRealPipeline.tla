--------------------------- MODULE MCRealPipeline ---------------------------
(* The experiment with two sizes of its concurrent part. *)
EXTENDS RealPipeline

ModelConcurrency == <<1, 2>>
=============================================================================
