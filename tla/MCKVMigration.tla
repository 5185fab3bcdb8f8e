--------------------------- MODULE MCKVMigration ---------------------------
(* Two nodes, a request and a block from before it. *)
EXTENDS KVMigration
=============================================================================
