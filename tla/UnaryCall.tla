----------------------------- MODULE UnaryCall ------------------------------
(***************************************************************************)
(* What one call of an RPC wrapper promises its application: at most one   *)
(* request, no request after a refusal, one report for each call, and a    *)
(* value only if the server has answered that request.                     *)
(***************************************************************************)
VARIABLES
    stage,    \* "open", "flying" or "over"
    transit,  \* the request: "unsent", "sent" or "arrived"
    report    \* "none", "value", "raised" or "handled"

vars == <<stage, transit, report>>

Init == stage = "open" /\ transit = "unsent" /\ report = "none"

Failed == report' \in {"raised", "handled"}

Refuse == stage = "open" /\ stage' = "over" /\ Failed /\ UNCHANGED transit

Send == stage = "open" /\ stage' = "flying" /\ transit' = "sent" /\ UNCHANGED report

(* The request may still arrive when the caller has given up.              *)
Arrive == transit = "sent" /\ transit' = "arrived" /\ UNCHANGED <<stage, report>>

Answer == stage = "flying" /\ stage' = "over" /\ transit = "arrived" /\ report' = "value" /\ UNCHANGED transit

Fail == stage = "flying" /\ stage' = "over" /\ Failed /\ UNCHANGED transit

Next == Refuse \/ Send \/ Arrive \/ Answer \/ Fail

Spec == Init /\ [][Next]_vars

=============================================================================
