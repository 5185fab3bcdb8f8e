--------------------------- MODULE MCRequestFlow ---------------------------
(* Two requests, two nodes that are the two stages of every pipeline. *)
EXTENDS RequestFlow
=============================================================================
