----------------------------- MODULE MCToolBatch -----------------------------
(* Small instances of ToolBatch. *)
EXTENDS ToolBatch
=============================================================================
