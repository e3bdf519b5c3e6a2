------------------------------- MODULE MCCron -------------------------------
(* Two jobs, one on an interval and one that is due once. *)
EXTENDS Cron, TLC

CONSTANTS often, once

Plans == often :> { [ kind |-> "interval", policy |-> "catch_up" ] }
      @@ once :> { [ kind |-> "once", policy |-> "fire_once" ] }
=============================================================================
