------------------------- MODULE MCOperationLedger -------------------------
(* A NON_IDEMPOTENT Tool that needs approval or a model request, with a    *)
(* history of up to MaxAttempts Attempts.                                   *)
EXTENDS OperationLedger, TLC

CONSTANTS tool, request

MCMeta == tool :> [ kind |-> "tool", idem |-> "non_idempotent", side |-> TRUE ]
       @@ request :> [ kind |-> "model", idem |-> "non_idempotent", side |-> FALSE ]
=============================================================================
