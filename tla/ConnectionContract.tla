-------------------------- MODULE ConnectionContract --------------------------
(***************************************************************************)
(* What a leaf connection promises to the transport pool that owns it: it  *)
(* admits requests until it is told to close, lets those in flight finish, *)
(* and tears its round tripper down only after the last one is gone.       *)
(***************************************************************************)
CONSTANT Requests

VARIABLES
    inFlight,  \* the requests that use the round tripper
    gate,      \* "open", "closing" (no new requests) or "drained"
    tornDown   \* the round tripper is closed

vars == << inFlight, gate, tornDown >>

Init ==
    /\ inFlight = {}
    /\ gate = "open"
    /\ tornDown = FALSE

Begin(r) ==
    /\ gate = "open"
    /\ r \notin inFlight
    /\ inFlight' = inFlight \cup {r}
    /\ UNCHANGED << gate, tornDown >>

End(r) ==
    /\ r \in inFlight
    /\ inFlight' = inFlight \ {r}
    /\ UNCHANGED << gate, tornDown >>

StartClosing ==
    /\ gate = "open"
    /\ gate' = "closing"
    /\ UNCHANGED << inFlight, tornDown >>

Drain ==
    /\ gate = "closing"
    /\ inFlight = {}
    /\ gate' = "drained"
    /\ UNCHANGED << inFlight, tornDown >>

TearDown ==
    /\ gate = "drained"
    /\ tornDown' = TRUE
    /\ UNCHANGED << inFlight, gate >>

Next ==
    \/ \E r \in Requests : Begin(r) \/ End(r)
    \/ StartClosing
    \/ Drain
    \/ TearDown

Spec == Init /\ [][Next]_vars

=============================================================================
