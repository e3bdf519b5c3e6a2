--------------------------- MODULE MCRunLifecycle ---------------------------
(* Small instances of RunLifecycle. *)
EXTENDS RunLifecycle

AllIdems  == Idempotency
OneUnsafe == { "non_idempotent" }
=============================================================================
