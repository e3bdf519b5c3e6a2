---------------------------- MODULE MCEventStream ----------------------------
(* Instances of EventStream: a queue of one overflows on the second event. *)
EXTENDS EventStream
=============================================================================
