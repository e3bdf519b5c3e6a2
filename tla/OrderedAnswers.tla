--------------------------- MODULE OrderedAnswers ---------------------------
(***************************************************************************)
(* What the React loop promises about the Tool calls of one model reply:   *)
(* the observations are appended one at a time, in the order of the calls, *)
(* and the reply is closed either with every call answered or by an        *)
(* exception.                                                              *)
(***************************************************************************)
EXTENDS Naturals

CONSTANT N            \* Tool calls of the reply

VARIABLES
  answered,           \* calls that have an observation: 1..answered
  state               \* "open", "complete" or "aborted"

Init == answered = 0 /\ state = "open"

Answer ==
  /\ state = "open"
  /\ answered < N
  /\ answered' = answered + 1
  /\ UNCHANGED state

Finish == state = "open" /\ answered = N /\ state' = "complete" /\ UNCHANGED answered

Abort  == state = "open" /\ state' = "aborted" /\ UNCHANGED answered

Next == Answer \/ Finish \/ Abort

Spec == Init /\ [][Next]_<<answered, state>>
=============================================================================
