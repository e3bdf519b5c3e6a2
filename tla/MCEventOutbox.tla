---------------------------- MODULE MCEventOutbox ----------------------------
(* Instances of EventOutbox: the two sinks every event is delivered to. *)
EXTENDS EventOutbox
=============================================================================
