--------------------------- MODULE MCModelLedger ---------------------------
(* Three nodes of different strength that share two layers, so that one may get none. *)
EXTENDS ModelLedger
=============================================================================
