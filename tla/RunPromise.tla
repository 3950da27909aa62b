----------------------------- MODULE RunPromise -----------------------------
(***************************************************************************)
(* What a user may rely on: a run is open until it ends, a stop that was   *)
(* accepted silences it, a success has been published, an end is final.    *)
(***************************************************************************)
CONSTANT Announced  \* does the result go to the conversation as a message? (a Boolean)

VARIABLES state,     \* "open", "stopping" or the way it ended
          published  \* the conversation has the message

vars == <<state, published>>

Init == state = "open" /\ published = FALSE

(* A message sent before the platform gave up on the run may still arrive.  *)
Publish ==
    /\ ~published /\ state \notin {"stopping", "stopped"}
    /\ published' = TRUE
    /\ UNCHANGED state

AcceptStop ==
    /\ state = "open"
    /\ state' = "stopping"
    /\ UNCHANGED published

Succeed ==
    /\ state \in {"open", "stopping"}
    /\ Announced => published
    /\ state' = "succeeded"
    /\ UNCHANGED published

Fail ==
    /\ state \in {"open", "stopping"}
    /\ state' = "failed"
    /\ UNCHANGED published

ConfirmStop ==
    /\ state = "stopping"
    /\ state' = "stopped"
    /\ UNCHANGED published

Next == Publish \/ AcceptStop \/ Succeed \/ Fail \/ ConfirmStop

Spec == Init /\ [][Next]_vars

=============================================================================
